---- MODULE Spec2Model ----
(***************************************************************************)
(* A model of gribble, a terminal system monitor (src/src/app.rs,          *)
(* src/src/network.rs, src/src/utils.rs, src/src/main.rs).                 *)
(*                                                                         *)
(* Strings are sequences of UTF-8 bytes, so that prefix tests              *)
(* (starts_with), truncation and lexicographic comparison are computed as  *)
(* the code computes them.  A path (PathBuf) is a record                   *)
(* [abs, comps]: "/" is [abs |-> TRUE, comps |-> <<>>], "." is             *)
(* [abs |-> FALSE, comps |-> <<".">>] and "" is [abs |-> FALSE,            *)
(* comps |-> <<>>].  Option<T> is a sequence of length 0 (None) or 1.      *)
(***************************************************************************)
EXTENDS Integers, Sequences, FiniteSets, TLC

VARIABLES
    app,            \* the App value (src/src/app.rs:110-139), a record
    fs,             \* environment: status of the volatile directories
    cwd,            \* environment: the process working directory
    home,           \* environment: $HOME, an Option<path>
    sys_processes,  \* provider: processes as of the last system.refresh_all()
    networks,       \* provider: interfaces as of the last networks.refresh()
    now,            \* the monotonic clock (Instant::now()), milliseconds
    panicked,       \* TRUE once a handler has panicked (the process is gone)
    call,           \* ghost: the last operation performed and its outcome
    ghost           \* ghost: what the history deques were given so far

vars == <<app, fs, cwd, home, sys_processes, networks, now, panicked, call,
          ghost>>

(***************************************************************************)
(* Program constants (src/src/utils.rs).                                   *)
(***************************************************************************)
MAX_PROCESSES == 1000
MAX_FILES == 10000
MAX_NETWORKS == 100
PAGE_SIZE == 10
NETWORK_HISTORY_SIZE == 60
UPDATE_INTERVAL == 2000
MANUAL_REFRESH_COOLDOWN == 500
FILE_NAME_MAX_LEN == 40
MAX_DIRECTORY_HISTORY == 20
PANEL_COUNT == 5

(***************************************************************************)
(* Bounds of the model.                                                    *)
(***************************************************************************)
ChainDepth == 21     \* depth of the chain of nested directories /n/n/...

(***************************************************************************)
(* Byte strings.                                                           *)
(***************************************************************************)
DotDot == <<46, 46>>                                  \* ".."
Ellipsis == <<46, 46, 46>>                            \* "..."
ErrorPrefix == <<60, 69, 114, 114, 111, 114, 58>>     \* "<Error:"
DirIcon == <<240, 159, 147, 129>>                     \* U+1F4C1, folder
FileIcon == <<240, 159, 147, 132>>                    \* U+1F4C4, page
RetryHint == <<60, 80, 114, 101, 115, 115, 32, 39, 114, 39, 32, 116, 111, 32,
               114, 101, 116, 114, 121, 62>>          \* "<Press 'r' to retry>"
EACCES == <<69, 65, 67, 67, 69, 83>>
ENOENT == <<69, 78, 79, 69, 78, 84>>
ENOTDIR == <<69, 78, 79, 84, 68, 73, 82>>
NameN == <<110>>                                      \* "n"
NameF == <<102>>                                      \* "f"
NameHome == <<104, 111, 109, 101>>                    \* "home"
NameZ == <<122, 46, 116, 120, 116>>                   \* "z.txt"
NameDot == <<46>>                                     \* "."

Min(a, b) == IF a <= b THEN a ELSE b

\* usize subtraction that saturates at 0
SatSub(a, b) == IF a >= b THEN a - b ELSE 0

\* str::starts_with
StartsWith(s, prefix) ==
    /\ Len(s) >= Len(prefix)
    /\ SubSeq(s, 1, Len(prefix)) = prefix

\* Iterator::take(n) on a sequence
Take(s, n) == SubSeq(s, 1, Min(Len(s), n))

None == <<>>
Some(x) == <<x>>

\* Lexicographic comparison of byte strings (str::cmp): -1, 0 or 1
RECURSIVE StrCmp(_, _)
StrCmp(s, t) ==
    IF s = <<>> /\ t = <<>> THEN 0
    ELSE IF s = <<>> THEN -1
    ELSE IF t = <<>> THEN 1
    ELSE IF Head(s) < Head(t) THEN -1
    ELSE IF Head(s) > Head(t) THEN 1
    ELSE StrCmp(Tail(s), Tail(t))

truncate_string(s, max_len) ==
    IF Len(s) <= max_len THEN s
    ELSE SubSeq(s, 1, SatSub(max_len, 3)) \o Ellipsis

(***************************************************************************)
(* Paths.                                                                  *)
(***************************************************************************)
Root == [abs |-> TRUE, comps |-> <<>>]
DotPath == [abs |-> FALSE, comps |-> <<NameDot>>]
EmptyPath == [abs |-> FALSE, comps |-> <<>>]

Join(p, name) == [p EXCEPT !.comps = Append(@, name)]

\* Path::parent: None for "/" and for "", the path without its last
\* component otherwise
PathParent(p) ==
    IF p.comps = <<>> THEN None
    ELSE Some([p EXCEPT !.comps = SubSeq(@, 1, Len(@) - 1)])

\* Option::unwrap_or
UnwrapOr(opt, default) == IF opt = None THEN default ELSE opt[1]

(***************************************************************************)
(* The file system: a fixed tree whose directories can lose their read     *)
(* permission ("denied") or vanish ("gone") while the program runs.        *)
(*   /            z.txt, n/, home/                                         *)
(*   /home        f                                                        *)
(*   /n, /n/n ... f, n/   (a chain ChainDepth deep)                        *)
(***************************************************************************)
Chain(k) == [abs |-> TRUE, comps |-> [i \in 1..k |-> NameN]]
HomeDir == Join(Root, NameHome)
ChainDirs == {Chain(k) : k \in 1..ChainDepth}
Dirs == {Root, HomeDir} \cup ChainDirs
Volatile == {HomeDir, Chain(1)}
FsStates ==
    {f \in [Volatile -> {"ok", "denied", "gone"}] : f[HomeDir] # "gone"}

\* The raw enumeration of a directory, in the order the OS yields it
RawEntries(p) ==
    IF p = Root THEN
        <<[name |-> NameZ, is_dir |-> FALSE], [name |-> NameN, is_dir |-> TRUE],
          [name |-> NameHome, is_dir |-> TRUE]>>
    ELSE IF p = HomeDir THEN <<[name |-> NameF, is_dir |-> FALSE]>>
    ELSE IF p \in ChainDirs /\ Len(p.comps) < ChainDepth THEN
        <<[name |-> NameF, is_dir |-> FALSE], [name |-> NameN, is_dir |-> TRUE]>>
    ELSE IF p \in ChainDirs THEN <<[name |-> NameF, is_dir |-> FALSE]>>
    ELSE <<>>

ChildPaths(d) == {Join(d, RawEntries(d)[i].name) : i \in DOMAIN RawEntries(d)}
Nodes == {Root} \cup UNION {ChildPaths(d) : d \in Dirs}
Files == Nodes \ Dirs

Status(p) == IF p \in Volatile THEN fs[p] ELSE "ok"

\* Every directory on the way to p, and p itself, is still there
RECURSIVE Exists(_)
Exists(p) ==
    /\ p.abs
    /\ \/ p \in Dirs /\ Status(p) # "gone"
       \/ p \in Files
    /\ p.comps = <<>> \/ Exists(PathParent(p)[1])

\* Path::is_dir
IsDir(p) == p \in Dirs /\ Exists(p)

\* fs::read_dir(p) is Ok
ReadOk(p) == IsDir(p) /\ Status(p) = "ok"

\* the io::Error of a failed fs::read_dir(p)
IoError(p) ==
    IF ~Exists(p) THEN ENOENT
    ELSE IF p \notin Dirs THEN ENOTDIR
    ELSE EACCES

\* the entries fs::read_dir(p) yields: those that still exist
DirEntries(p) ==
    LET Present(e) == Exists(Join(p, e.name))
    IN  SelectSeq(RawEntries(p), Present)

\* std::env::current_dir(): an Option<path>
EnvCurrentDir == IF Exists(cwd) THEN Some(cwd) ELSE None

(***************************************************************************)
(* App::read_directory (src/src/app.rs:202-257).  A listing is the pair    *)
(* (Vec<String>, Vec<PathBuf>) as a record [items, paths].                 *)
(***************************************************************************)
\* slice::sort_by(|a, b| a.0.cmp(&b.0)): a stable sort by label
RECURSIVE InsertByLabel(_, _)
InsertByLabel(sorted, x) ==
    IF sorted = <<>> THEN <<x>>
    ELSE IF StrCmp(x.label, Head(sorted).label) < 0 THEN <<x>> \o sorted
    ELSE <<Head(sorted)>> \o InsertByLabel(Tail(sorted), x)

RECURSIVE SortByLabel(_)
SortByLabel(s) ==
    IF s = <<>> THEN <<>>
    ELSE InsertByLabel(SortByLabel(SubSeq(s, 1, Len(s) - 1)), s[Len(s)])

\* format!("{icon} {}", truncated_name) with the entry's path, for each entry
Labelled(path, icon, es) ==
    [i \in 1..Len(es) |->
        [label |-> icon \o <<32>> \o
                   truncate_string(es[i].name, FILE_NAME_MAX_LEN),
         path |-> Join(path, es[i].name)]]

\* app.rs:241-250, ".." and its target, then the sorted entries
ListingOf(path, all) ==
    [items |-> <<DotDot>> \o [i \in 1..Len(all) |-> all[i].label],
     paths |-> <<UnwrapOr(PathParent(path), path)>> \o
               [i \in 1..Len(all) |-> all[i].path]]

\* the entries with the directories first, each group as enumerated
UnsortedEntries(path, taken) ==
    LET EntryIsDir(e) == IsDir(Join(path, e.name))
        EntryIsFile(e) == ~IsDir(Join(path, e.name))
    IN  Labelled(path, DirIcon, SelectSeq(taken, EntryIsDir))
        \o Labelled(path, FileIcon, SelectSeq(taken, EntryIsFile))

\* app.rs:219-238, the first MAX_FILES entries, directories and files sorted
\* apart
SortedEntries(path, taken) ==
    LET EntryIsDir(e) == IsDir(Join(path, e.name))
        EntryIsFile(e) == ~IsDir(Join(path, e.name))
    IN  SortByLabel(Labelled(path, DirIcon, SelectSeq(taken, EntryIsDir)))
        \o SortByLabel(Labelled(path, FileIcon, SelectSeq(taken, EntryIsFile)))

\* the Ok arm: path is readable and yields `entries`
BuildListing(path, entries) ==
    ListingOf(path, SortedEntries(path, Take(entries, MAX_FILES)))

\* the Err arm: the sentinel listing
ErrorListing(path) ==
    [items |-> <<ErrorPrefix \o <<32>> \o IoError(path) \o <<62>>, RetryHint>>,
     paths |-> <<path, path>>]

read_directory(path) ==
    IF ReadOk(path) THEN BuildListing(path, DirEntries(path))
    ELSE ErrorListing(path)

(***************************************************************************)
(* Navigation (src/src/app.rs:259-323).  An operation on the App returns   *)
(* [app, ok, log]: the App after it, its result, and the navigation        *)
(* attempts it made, in order, as [target, ok] (the warn!/info! lines).    *)
(***************************************************************************)
Contains(seq, x) == \E i \in DOMAIN seq : seq[i] = x

\* a history that, once full, gives up its newest entry for the target
PushHistoryEvictNewest(history, target) ==
    IF Contains(history, target) THEN history
    ELSE IF Len(history) >= MAX_DIRECTORY_HISTORY
    THEN Append(SubSeq(history, 1, Len(history) - 1), target)
    ELSE Append(history, target)

\* a history that, once full, takes no further directory
PushHistoryUntilFull(history, target) ==
    IF Contains(history, target) \/ Len(history) >= MAX_DIRECTORY_HISTORY
    THEN history
    ELSE Append(history, target)

\* a history that takes the target even when it already holds it
PushHistoryNoDedup(history, target) ==
    LET pushed == Append(history, target)
    IN  IF Len(pushed) > MAX_DIRECTORY_HISTORY THEN Tail(pushed) ELSE pushed

\* app.rs:271-277; Vec::remove(0) when the history has outgrown its limit
PushHistory(history, target) ==
    IF Contains(history, target) THEN history
    ELSE LET pushed == Append(history, target)
         IN  IF Len(pushed) > MAX_DIRECTORY_HISTORY THEN Tail(pushed)
             ELSE pushed

\* a test that lets the error sentinel pass
ListingIsNotEmpty(listing) == Len(listing.items) > 0

\* app.rs:263, the listing is not the error sentinel
ListingIsGood(listing) ==
    Len(listing.items) > 0 /\ ~StartsWith(listing.items[1], ErrorPrefix)

\* a successful navigation that does not record the directory as the last
\* successful one
CommitNavigationOldSafeDir(a, target_path, listing) ==
    [a EXCEPT !.current_dir = target_path,
              !.dir_entries = listing.items,
              !.dir_entry_paths = listing.paths,
              !.selected_file = 0,
              !.file_list_state = Some(0),
              !.directory_history = PushHistory(@, target_path)]

\* app.rs:264-278, the assignments of a successful navigation
CommitNavigation(a, target_path, listing) ==
    [a EXCEPT !.current_dir = target_path,
              !.dir_entries = listing.items,
              !.dir_entry_paths = listing.paths,
              !.selected_file = 0,
              !.file_list_state = Some(0),
              !.directory_history = PushHistory(@, target_path),
              !.last_successful_dir = target_path]

\* app.rs:263-283, given the listing read at app.rs:260
NavigateWith(a, target_path, listing) ==
    IF ListingIsGood(listing)
    THEN [app |-> CommitNavigation(a, target_path, listing), ok |-> TRUE,
          log |-> <<[target |-> target_path, ok |-> TRUE]>>]
    ELSE [app |-> a, ok |-> FALSE,
          log |-> <<[target |-> target_path, ok |-> FALSE]>>]

\* a navigation that resets the file cursor before it looks at the listing
try_navigate_cursor_reset_first(a, target_path) ==
    NavigateWith([a EXCEPT !.selected_file = 0, !.file_list_state = Some(0)],
                 target_path, read_directory(target_path))

try_navigate_to_directory(a, target_path) ==
    NavigateWith(a, target_path, read_directory(target_path))

\* the result n of a further attempt, after the operations that gave r
After(r, n) == [app |-> n.app, ok |-> n.ok, log |-> r.log \o n.log]

\* a further attempt after the operations that gave r, unless one of them
\* succeeded or there is no such candidate
ThenTry(r, candidate) ==
    IF r.ok \/ candidate = None THEN r
    ELSE After(r, try_navigate_to_directory(r.app, candidate[1]))

NothingTried(a) == [app |-> a, ok |-> FALSE, log |-> <<>>]

\* app.rs:288-294
TryLastSuccessful(r) ==
    ThenTry(r, IF r.app.last_successful_dir # r.app.current_dir
               THEN Some(r.app.last_successful_dir) ELSE None)

\* app.rs:297-303
TryParent(r) == ThenTry(r, PathParent(r.app.current_dir))

\* app.rs:306-312
TryHome(r) == ThenTry(r, home)

\* app.rs:315-320
TryWorkingDir(r) == ThenTry(r, EnvCurrentDir)

\* a recovery that tries the home directory before the parent
navigate_back_home_first(a) ==
    TryWorkingDir(TryParent(TryHome(TryLastSuccessful(NothingTried(a)))))

navigate_back_to_safe_directory(a) ==
    TryWorkingDir(TryHome(TryParent(TryLastSuccessful(NothingTried(a)))))

\* `if !self.try_navigate_to_directory(&p) { self.navigate_back_to_safe_directory() }`
RecoverUnlessOk(n) ==
    IF n.ok THEN n ELSE After(n, navigate_back_to_safe_directory(n.app))

NavigateOrRecover(a, target_path) ==
    RecoverUnlessOk(try_navigate_to_directory(a, target_path))

(***************************************************************************)
(* NetworkHistory (src/src/network.rs).  A VecDeque is a sequence whose    *)
(* front is its first element.                                             *)
(***************************************************************************)
NetworkHistoryNew ==
    [rx_history |-> <<>>, tx_history |-> <<>>,
     rx_rates |-> <<>>, tx_rates |-> <<>>,
     last_rx_bytes |-> 0, last_tx_bytes |-> 0,
     max_history |-> NETWORK_HISTORY_SIZE,
     current_interface |-> "",
     counter_wrapped |-> FALSE]

\* nothing was pushed onto any deque
NoAppend == [rx_history |-> <<>>, tx_history |-> <<>>,
             rx_rates |-> <<>>, tx_rates |-> <<>>]

\* push_back keeping the newest element when the deque is over its limit
PushBackEvictBack(deque, value, max_history) ==
    LET pushed == Append(deque, value)
    IN  IF Len(pushed) > max_history THEN SubSeq(pushed, 1, Len(pushed) - 1)
        ELSE pushed

\* push_back, then pop_front when the deque has outgrown max_history
PushBack(deque, value, max_history) ==
    LET pushed == Append(deque, value)
    IN  IF Len(pushed) > max_history THEN Tail(pushed) ELSE pushed

\* a decrease test that looks at the received counter only
CounterDecreasedRxOnly(nh, total_rx, total_tx) ==
    total_rx < nh.last_rx_bytes

\* a decrease test that also takes an unchanged counter for a decrease
CounterDecreasedOrEqual(nh, total_rx, total_tx) ==
    total_rx <= nh.last_rx_bytes \/ total_tx <= nh.last_tx_bytes

\* network.rs:55, a counter went down: wraparound or interface reset
CounterDecreased(nh, total_rx, total_tx) ==
    total_rx < nh.last_rx_bytes \/ total_tx < nh.last_tx_bytes

\* a rate test that forgets the wraparound flag
RateDueIgnoringWrap(nh) ==
    nh.last_rx_bytes > 0 /\ nh.last_tx_bytes > 0

\* network.rs:62, a rate can be derived from the last-seen counters
RateDue(nh) ==
    nh.last_rx_bytes > 0 /\ nh.last_tx_bytes > 0 /\ ~nh.counter_wrapped

\* a rate with the operands of the subtraction exchanged
RateSwapped(total, last) == SatSub(last, total)

\* network.rs:63-64, u64::saturating_sub
Rate(total, last) == SatSub(total, last)

\* an ingest that decides for each direction by itself whether a rate is due
IngestRatesApart(nh, total_rx, total_tx) ==
    IF CounterDecreased(nh, total_rx, total_tx) THEN
        [nh |-> [nh EXCEPT !.counter_wrapped = TRUE,
                           !.last_rx_bytes = total_rx,
                           !.last_tx_bytes = total_tx],
         appended |-> NoAppend]
    ELSE
        LET rx_rated == nh.last_rx_bytes > 0 /\ ~nh.counter_wrapped
            tx_rated == nh.last_tx_bytes > 0 /\ ~nh.counter_wrapped
            rx_rate == Rate(total_rx, nh.last_rx_bytes)
            tx_rate == Rate(total_tx, nh.last_tx_bytes)
        IN  [nh |-> [nh EXCEPT
                 !.rx_rates = IF rx_rated
                              THEN PushBack(@, rx_rate, nh.max_history) ELSE @,
                 !.tx_rates = IF tx_rated
                              THEN PushBack(@, tx_rate, nh.max_history) ELSE @,
                 !.rx_history = PushBack(@, total_rx, nh.max_history),
                 !.tx_history = PushBack(@, total_tx, nh.max_history),
                 !.last_rx_bytes = total_rx,
                 !.last_tx_bytes = total_tx,
                 !.counter_wrapped = FALSE],
             appended |-> [rx_history |-> <<total_rx>>,
                           tx_history |-> <<total_tx>>,
                           rx_rates |-> IF rx_rated THEN <<rx_rate>> ELSE <<>>,
                           tx_rates |-> IF tx_rated THEN <<tx_rate>> ELSE <<>>]]

\* network.rs:51-89, the part of update() after the interface is resolved.
\* Returns the history after it and, per deque, the values it pushed.
Ingest(nh, total_rx, total_tx) ==
    IF CounterDecreased(nh, total_rx, total_tx) THEN
        [nh |-> [nh EXCEPT !.counter_wrapped = TRUE,
                           !.last_rx_bytes = total_rx,
                           !.last_tx_bytes = total_tx],
         appended |-> NoAppend]
    ELSE
        LET rated == RateDue(nh)
            rx_rate == Rate(total_rx, nh.last_rx_bytes)
            tx_rate == Rate(total_tx, nh.last_tx_bytes)
        IN  [nh |-> [nh EXCEPT
                 !.rx_rates = IF rated THEN PushBack(@, rx_rate, nh.max_history)
                              ELSE @,
                 !.tx_rates = IF rated THEN PushBack(@, tx_rate, nh.max_history)
                              ELSE @,
                 !.rx_history = PushBack(@, total_rx, nh.max_history),
                 !.tx_history = PushBack(@, total_tx, nh.max_history),
                 !.last_rx_bytes = total_rx,
                 !.last_tx_bytes = total_tx,
                 !.counter_wrapped = FALSE],
             appended |-> [rx_history |-> <<total_rx>>,
                           tx_history |-> <<total_tx>>,
                           rx_rates |-> IF rated THEN <<rx_rate>> ELSE <<>>,
                           tx_rates |-> IF rated THEN <<tx_rate>> ELSE <<>>]]

\* network.rs:34-46: the interface update() reads, an Option; `nets` is
\* networks.list() in iteration order, each [name, total_received,
\* total_transmitted]
ResolveInterface(nets, selected_interface) ==
    LET network_list == Take(nets, 100)
        found == {i \in DOMAIN network_list :
                    network_list[i].name = selected_interface}
    IN  IF network_list = <<>> THEN None
        ELSE IF selected_interface # "" /\ found # {}
        THEN Some(network_list[CHOOSE i \in found : \A j \in found : i <= j])
        ELSE Some(network_list[1])

\* NetworkHistory::update(networks, selected_interface)
NetworkHistoryUpdate(nh, nets, selected_interface) ==
    LET item == ResolveInterface(nets, selected_interface)
    IN  IF item = None THEN [nh |-> nh, appended |-> NoAppend]
        ELSE Ingest([nh EXCEPT !.current_interface = item[1].name],
                    item[1].total_received, item[1].total_transmitted)

NetworkHistoryClear(nh) ==
    [nh EXCEPT !.rx_history = <<>>, !.tx_history = <<>>,
               !.rx_rates = <<>>, !.tx_rates = <<>>,
               !.last_rx_bytes = 0, !.last_tx_bytes = 0,
               !.counter_wrapped = FALSE]

(***************************************************************************)
(* Panel (src/src/app.rs:23-49).                                           *)
(***************************************************************************)
Panels == <<"SystemMonitor", "SystemStatus", "ProcessManager", "FileExplorer",
            "NetworkGraph">>

\* Panel::from_index: an Option<Panel>
PanelFromIndex(index) ==
    IF index \in 0..(PANEL_COUNT - 1) THEN Some(Panels[index + 1]) ELSE None

\* Panel::as_index
PanelAsIndex(panel) == (CHOOSE i \in DOMAIN Panels : Panels[i] = panel) - 1

(***************************************************************************)
(* The caches (src/src/app.rs:347-373).  A provider process is             *)
(* [pid, cpu_usage]; its name and memory are only displayed and are left   *)
(* out.  cpu_usage is an f32: NaN stands for every value partial_cmp       *)
(* cannot order.                                                           *)
(***************************************************************************)
NaN == -1

\* a comparison that puts the lower cpu_usage first
CpuCmpAscending(a, b) ==
    IF a.cpu_usage = NaN \/ b.cpu_usage = NaN THEN 0
    ELSE IF a.cpu_usage < b.cpu_usage THEN -1
    ELSE IF a.cpu_usage > b.cpu_usage THEN 1
    ELSE 0

\* b.cpu_usage.partial_cmp(&a.cpu_usage).unwrap_or(Ordering::Equal)
CpuCmp(a, b) ==
    IF a.cpu_usage = NaN \/ b.cpu_usage = NaN THEN 0
    ELSE IF b.cpu_usage < a.cpu_usage THEN -1
    ELSE IF b.cpu_usage > a.cpu_usage THEN 1
    ELSE 0

\* one step of the insertion sort slice::sort_by runs on short slices: x,
\* placed after the sorted elements, moves left past every element the
\* comparison puts it before
RECURSIVE InsertByCpu(_, _)
InsertByCpu(sorted, x) ==
    IF sorted = <<>> THEN <<x>>
    ELSE IF CpuCmp(x, sorted[Len(sorted)]) < 0
    THEN Append(InsertByCpu(SubSeq(sorted, 1, Len(sorted) - 1), x),
                sorted[Len(sorted)])
    ELSE Append(sorted, x)

\* s[lo], ..., s[hi] inserted one after the other into sorted, which holds
\* the elements before s[lo]
RECURSIVE InsertRangeByCpu(_, _, _, _)
InsertRangeByCpu(sorted, s, lo, hi) ==
    IF Len(sorted) >= hi THEN sorted
    ELSE IF lo = hi THEN InsertByCpu(sorted, s[lo])
    ELSE InsertRangeByCpu(InsertRangeByCpu(sorted, s, lo, (lo + hi) \div 2),
                          s, (lo + hi) \div 2 + 1, hi)

\* Vec::sort_by: a stable sort.  Where the comparison is a total preorder
\* (no NaN) its result is the one every stable sort gives; with NaN it is
\* the result of the insertion sort the standard library runs on slices
\* of up to 20 elements
SortByCpu(s) == InsertRangeByCpu(<<>>, s, 1, Len(s))

\* a rebuild that clears the caches and leaves the filling for later
refresh_cached_data_clearing(a, procs, nets) ==
    [a EXCEPT !.cached_processes = <<>>,
              !.cached_networks = <<>>,
              !.last_data_refresh = now]

\* a rebuild that does not clear the network cache before it fills it
refresh_cached_data_keeping(a, procs, nets) ==
    [a EXCEPT !.cached_processes = SortByCpu(Take(procs, MAX_PROCESSES)),
              !.cached_networks = Take(@ \o nets, MAX_NETWORKS),
              !.last_data_refresh = now]

\* procs and nets are system.processes() and networks.list() in
\* iteration order
refresh_cached_data(a, procs, nets) ==
    [a EXCEPT !.cached_processes = SortByCpu(Take(procs, MAX_PROCESSES)),
              !.cached_networks = Take(nets, MAX_NETWORKS),
              !.last_data_refresh = now]

\* ModalData (app.rs:75-108) as one record; a variant leaves the fields of
\* the other variants at their defaults
NoModalData ==
    [kind |-> "SystemDetails", hostname |-> "Unknown", pid |-> 0,
     cpu_usage |-> 0, name |-> "", total_received |-> 0,
     total_transmitted |-> 0, received_rate |-> 0, transmitted_rate |-> 0,
     mount_point |-> EmptyPath, file |-> <<>>]

(***************************************************************************)
(* App::new (src/src/app.rs:142-200).                                      *)
(***************************************************************************)
\* app.rs:152-200, given the directory of app.rs:148 and its listing
AppNewIn(current_dir, listing) ==
    refresh_cached_data(
            [should_quit |-> FALSE,
             last_update |-> now,
             last_manual_refresh |-> now,
             selected_panel |-> "SystemMonitor",
             current_dir |-> current_dir,
             dir_entries |-> listing.items,
             dir_entry_paths |-> listing.paths,
             selected_process |-> 0,
             selected_file |-> 0,
             selected_network |-> 0,
             show_help |-> FALSE,
             process_list_state |-> Some(0),
             file_list_state |-> Some(0),
             network_history |-> NetworkHistoryNew,
             cached_processes |-> <<>>,
             cached_networks |-> <<>>,
             last_data_refresh |-> now,
             directory_history |-> <<current_dir>>,
             last_successful_dir |-> current_dir,
             show_modal |-> FALSE,
             modal_type |-> "SystemDetails",
             modal_data |-> NoModalData],
            sys_processes, networks)

AppNewAt(current_dir) == AppNewIn(current_dir, read_directory(current_dir))

AppNew == AppNewAt(UnwrapOr(EnvCurrentDir, DotPath))

(***************************************************************************)
(* App::update (src/src/app.rs:325-345).  procs and nets are what the      *)
(* provider reports if it is queried now.  Returns [app, refreshed,        *)
(* appended].                                                              *)
(***************************************************************************)
AppUpdateWith(a, procs, nets, due) ==
    IF due THEN
        LET cached == refresh_cached_data(a, procs, nets)
            selected_interface_name ==
                IF cached.selected_network < Len(cached.cached_networks)
                THEN cached.cached_networks[cached.selected_network + 1].name
                ELSE ""
            fed == NetworkHistoryUpdate(cached.network_history, nets,
                                        selected_interface_name)
        IN  [app |-> [cached EXCEPT !.network_history = fed.nh,
                                    !.last_update = now],
             refreshed |-> TRUE,
             appended |-> fed.appended]
    ELSE [app |-> a, refreshed |-> FALSE, appended |-> NoAppend]

\* an update() that brings the process cursor back into the rebuilt cache
AppUpdateClamping(a, procs, nets) ==
    LET r == AppUpdateWith(a, procs, nets,
                           now - a.last_update >= UPDATE_INTERVAL)
    IN  [r EXCEPT !.app.selected_process =
                      Min(@, SatSub(Len(r.app.cached_processes), 1))]

\* an interval that has to be exceeded, not only reached
AppUpdateLate(a, procs, nets) ==
    AppUpdateWith(a, procs, nets, now - a.last_update > UPDATE_INTERVAL)

AppUpdate(a, procs, nets) ==
    AppUpdateWith(a, procs, nets, now - a.last_update >= UPDATE_INTERVAL)

(***************************************************************************)
(* Key handling (src/src/app.rs:375-780).  A handler returns               *)
(* [app, panic, log, refresh_system]: the App after it, whether it         *)
(* panicked, the navigation attempts it made, and whether it called        *)
(* system.refresh_all().                                                   *)
(***************************************************************************)
Done(a) == [app |-> a, panic |-> FALSE, log |-> <<>>, refresh_system |-> FALSE]
Panic(a) == [app |-> a, panic |-> TRUE, log |-> <<>>, refresh_system |-> FALSE]
Navigated(r) ==
    [app |-> r.app, panic |-> FALSE, log |-> r.log, refresh_system |-> FALSE]

MountPoints == {HomeDir}

\* a modal that takes the whole program down with it
hide_modal_and_quit(a) == [a EXCEPT !.show_modal = FALSE, !.should_quit = TRUE]

hide_modal(a) == [a EXCEPT !.show_modal = FALSE]

\* a panel_next that stops at the last panel
select_next_panel_no_wrap(a) ==
    LET next_index == Min(PanelAsIndex(a.selected_panel) + 1, PANEL_COUNT - 1)
    IN  [a EXCEPT !.selected_panel =
                      UnwrapOr(PanelFromIndex(next_index), "SystemMonitor")]

select_next_panel(a) ==
    LET next_index == (PanelAsIndex(a.selected_panel) + 1) % PANEL_COUNT
    IN  [a EXCEPT !.selected_panel =
                      UnwrapOr(PanelFromIndex(next_index), "SystemMonitor")]

select_previous_panel(a) ==
    LET current_index == PanelAsIndex(a.selected_panel)
        prev_index == IF current_index = 0 THEN PANEL_COUNT - 1
                      ELSE current_index - 1
    IN  [a EXCEPT !.selected_panel =
                      UnwrapOr(PanelFromIndex(prev_index), "SystemMonitor")]

\* app.rs:596-617, for the selected row (selected_item, selected_path);
\* enter_files tells whether a row with the file icon is entered as well
ActivateRow(a, selected_item, selected_path, enter_files) ==
    IF StartsWith(selected_item, ErrorPrefix)
    THEN navigate_back_to_safe_directory(a)
    ELSE IF selected_item = DotDot
    THEN NavigateOrRecover(a, selected_path)
    ELSE IF StartsWith(selected_item, DirIcon) /\ IsDir(selected_path)
    THEN NavigateOrRecover(a, selected_path)
    ELSE IF enter_files /\ StartsWith(selected_item, FileIcon)
    THEN NavigateOrRecover(a, selected_path)
    ELSE [app |-> a, ok |-> FALSE, log |-> <<>>]

\* app.rs:588-594
NavigateIntoWith(a, enter_files) ==
    IF a.selected_file >= Len(a.dir_entries)
       \/ a.selected_file >= Len(a.dir_entry_paths)
    THEN [app |-> a, ok |-> FALSE, log |-> <<>>]
    ELSE ActivateRow(a, a.dir_entries[a.selected_file + 1],
                     a.dir_entry_paths[a.selected_file + 1], enter_files)

\* an activation that treats a file row as a directory row
navigate_into_selected_or_file(a) == NavigateIntoWith(a, TRUE)

\* app.rs:587-618
navigate_into_selected(a) == NavigateIntoWith(a, FALSE)

\* app.rs:636-652; a Vec index out of range panics
show_process_modal(a) ==
    IF a.selected_panel = "ProcessManager" /\ a.cached_processes # <<>> THEN
        IF a.selected_process >= Len(a.cached_processes) THEN Panic(a)
        ELSE
            LET selected_process == a.cached_processes[a.selected_process + 1]
            IN  IF \E i \in DOMAIN sys_processes :
                       sys_processes[i].pid = selected_process.pid
                THEN Done([a EXCEPT
                         !.modal_data = [NoModalData EXCEPT
                                            !.kind = "ProcessDetails",
                                            !.pid = selected_process.pid,
                                            !.cpu_usage =
                                                selected_process.cpu_usage],
                         !.modal_type = "ProcessDetails",
                         !.show_modal = TRUE])
                ELSE Done(a)
    ELSE Done(a)

\* app.rs:654-679; a Vec index out of range and unwrap() of None panic
show_network_modal(a) ==
    IF a.selected_panel = "NetworkGraph" /\ a.cached_networks # <<>> THEN
        IF a.selected_network >= Len(a.cached_networks) THEN Panic(a)
        ELSE
            LET selected_network == a.cached_networks[a.selected_network + 1]
                nh == a.network_history
                rx_rate == IF nh.rx_rates # <<>>
                           THEN nh.rx_rates[Len(nh.rx_rates)] ELSE 0
                tx_rate == IF nh.rx_rates # <<>> /\ nh.tx_rates # <<>>
                           THEN nh.tx_rates[Len(nh.tx_rates)] ELSE 0
            IN  IF ~\E i \in DOMAIN networks :
                        networks[i].name = selected_network.name
                THEN Panic(a)
                ELSE Done([a EXCEPT
                         !.modal_data = [NoModalData EXCEPT
                             !.kind = "NetworkDetails",
                             !.name = selected_network.name,
                             !.total_received = selected_network.total_received,
                             !.total_transmitted =
                                 selected_network.total_transmitted,
                             !.received_rate = rx_rate,
                             !.transmitted_rate = tx_rate],
                         !.modal_type = "NetworkDetails",
                         !.show_modal = TRUE])
    ELSE Done(a)

\* app.rs:681-693
show_system_modal(a) ==
    Done([a EXCEPT !.modal_data = [NoModalData EXCEPT !.hostname = "host"],
                   !.modal_type = "SystemDetails",
                   !.show_modal = TRUE])

\* app.rs:695-776
show_file_modal(a) ==
    IF a.selected_file >= Len(a.dir_entries)
       \/ a.selected_file >= Len(a.dir_entry_paths)
    THEN Done(a)
    ELSE
        LET selected_item == a.dir_entries[a.selected_file + 1]
            selected_path == a.dir_entry_paths[a.selected_file + 1]
        IN  IF selected_item = DotDot \/ StartsWith(selected_item, ErrorPrefix)
            THEN Done(a)
            ELSE IF IsDir(selected_path) /\ selected_path \in MountPoints
            THEN Done([a EXCEPT
                     !.modal_data = [NoModalData EXCEPT
                                        !.kind = "DiskDetails",
                                        !.mount_point = selected_path],
                     !.modal_type = "DiskDetails",
                     !.show_modal = TRUE])
            ELSE IF Exists(selected_path)
            THEN Done([a EXCEPT
                     !.modal_data = [NoModalData EXCEPT
                                        !.hostname = "File Info",
                                        !.file = selected_item],
                     !.modal_type = "SystemDetails",
                     !.show_modal = TRUE])
            ELSE Done(a)

Keys == {"q", "Esc", "Left", "h", "Right", "l", "Up", "k", "Down", "j",
         "PageUp", "PageDown", "Home", "End", "Enter", "r", "?", "i", "b",
         "Backspace", "x"}

\* app.rs:402-430
KeyUp(a) ==
    IF a.selected_panel = "ProcessManager" THEN
        IF a.selected_process > 0
        THEN Done([a EXCEPT !.selected_process = @ - 1,
                            !.process_list_state = Some(a.selected_process - 1)])
        ELSE Done(a)
    ELSE IF a.selected_panel = "FileExplorer" THEN
        IF a.selected_file > 0
        THEN Done([a EXCEPT !.selected_file = @ - 1,
                            !.file_list_state = Some(a.selected_file - 1)])
        ELSE Done(a)
    ELSE IF a.selected_panel = "NetworkGraph" THEN
        LET network_count == Len(a.cached_networks)
        IN  IF network_count > 0
            THEN Done([a EXCEPT
                     !.selected_network = IF @ = 0 THEN SatSub(network_count, 1)
                                          ELSE @ - 1,
                     !.network_history = NetworkHistoryClear(@)])
            ELSE Done(a)
    ELSE Done(a)

\* app.rs:431-456; overflow_checks tells whether the build panics on an
\* arithmetic overflow (debug) or wraps (release)
KeyDown(a, overflow_checks) ==
    IF a.selected_panel = "ProcessManager" THEN
        LET max_processes == Len(a.cached_processes)
        IN  IF a.selected_process < SatSub(max_processes, 1)
            THEN Done([a EXCEPT !.selected_process = @ + 1,
                                !.process_list_state = Some(a.selected_process + 1)])
            ELSE Done(a)
    ELSE IF a.selected_panel = "FileExplorer" THEN
        IF Len(a.dir_entries) = 0 /\ overflow_checks THEN Panic(a)
        ELSE IF Len(a.dir_entries) = 0 \/ a.selected_file < Len(a.dir_entries) - 1
        THEN Done([a EXCEPT !.selected_file = @ + 1,
                            !.file_list_state = Some(a.selected_file + 1)])
        ELSE Done(a)
    ELSE IF a.selected_panel = "NetworkGraph" THEN
        LET network_count == Len(a.cached_networks)
        IN  IF network_count > 0
            THEN Done([a EXCEPT
                     !.selected_network = (@ + 1) % network_count,
                     !.network_history = NetworkHistoryClear(@)])
            ELSE Done(a)
    ELSE Done(a)

\* app.rs:457-471
KeyPageUp(a) ==
    IF a.selected_panel = "ProcessManager" THEN
        Done([a EXCEPT !.selected_process = SatSub(@, PAGE_SIZE),
                       !.process_list_state =
                           Some(SatSub(a.selected_process, PAGE_SIZE))])
    ELSE IF a.selected_panel = "FileExplorer" THEN
        Done([a EXCEPT !.selected_file = SatSub(@, PAGE_SIZE),
                       !.file_list_state =
                           Some(SatSub(a.selected_file, PAGE_SIZE))])
    ELSE Done(a)

\* a PageDown that moves by a page without looking at the end of the list
KeyPageDownUnclamped(a) ==
    IF a.selected_panel = "ProcessManager" THEN
        Done([a EXCEPT !.selected_process = @ + PAGE_SIZE,
                       !.process_list_state =
                           Some(a.selected_process + PAGE_SIZE)])
    ELSE IF a.selected_panel = "FileExplorer" THEN
        Done([a EXCEPT !.selected_file = @ + PAGE_SIZE,
                       !.file_list_state = Some(a.selected_file + PAGE_SIZE)])
    ELSE Done(a)

\* app.rs:472-488
KeyPageDown(a) ==
    IF a.selected_panel = "ProcessManager" THEN
        LET target == Min(a.selected_process + PAGE_SIZE,
                          SatSub(Len(a.cached_processes), 1))
        IN  Done([a EXCEPT !.selected_process = target,
                           !.process_list_state = Some(target)])
    ELSE IF a.selected_panel = "FileExplorer" THEN
        LET target == Min(a.selected_file + PAGE_SIZE,
                          SatSub(Len(a.dir_entries), 1))
        IN  Done([a EXCEPT !.selected_file = target,
                           !.file_list_state = Some(target)])
    ELSE Done(a)

\* a Home that also jumps to the first interface, starting its history anew
KeyHomeOfInterfaces(a) ==
    IF a.selected_panel = "NetworkGraph" THEN
        Done([a EXCEPT !.selected_network = 0,
                       !.network_history = NetworkHistoryClear(@)])
    ELSE Done(a)

\* app.rs:489-501
KeyHome(a) ==
    IF a.selected_panel = "ProcessManager" THEN
        Done([a EXCEPT !.selected_process = 0, !.process_list_state = Some(0)])
    ELSE IF a.selected_panel = "FileExplorer" THEN
        Done([a EXCEPT !.selected_file = 0, !.file_list_state = Some(0)])
    ELSE Done(a)

\* app.rs:502-520
KeyEnd(a) ==
    IF a.selected_panel = "ProcessManager" THEN
        LET max_processes == Len(a.cached_processes)
        IN  IF max_processes > 0
            THEN Done([a EXCEPT
                     !.selected_process = SatSub(max_processes, 1),
                     !.process_list_state = Some(SatSub(max_processes, 1))])
            ELSE Done(a)
    ELSE IF a.selected_panel = "FileExplorer" THEN
        LET max_files == Len(a.dir_entries)
        IN  IF max_files > 0
            THEN Done([a EXCEPT !.selected_file = max_files - 1,
                                !.file_list_state = Some(max_files - 1)])
            ELSE Done(a)
    ELSE Done(a)

\* app.rs:526-539
KeyRefreshWith(a, served) ==
    IF served THEN
        LET r == IF a.selected_panel = "FileExplorer"
                 THEN NavigateOrRecover(a, a.current_dir)
                 ELSE [app |-> a, ok |-> TRUE, log |-> <<>>]
        IN  [app |-> [r.app EXCEPT !.last_manual_refresh = now],
             panic |-> FALSE, log |-> r.log, refresh_system |-> TRUE]
    ELSE Done(a)

\* a dropped refresh that restarts the cooldown
KeyRefreshRestartsCooldown(a) ==
    IF now - a.last_manual_refresh >= MANUAL_REFRESH_COOLDOWN
    THEN KeyRefreshWith(a, TRUE)
    ELSE Done([a EXCEPT !.last_manual_refresh = now])

\* a cooldown that has to be exceeded, not only reached
KeyRefreshLate(a) ==
    KeyRefreshWith(a, now - a.last_manual_refresh > MANUAL_REFRESH_COOLDOWN)

KeyRefresh(a) ==
    KeyRefreshWith(a, now - a.last_manual_refresh >= MANUAL_REFRESH_COOLDOWN)

\* app.rs:543-556
KeyInfo(a) ==
    IF a.show_modal THEN Done(hide_modal(a))
    ELSE IF a.selected_panel = "ProcessManager" THEN show_process_modal(a)
    ELSE IF a.selected_panel = "NetworkGraph" THEN show_network_modal(a)
    ELSE IF a.selected_panel \in {"SystemMonitor", "SystemStatus"}
    THEN show_system_modal(a)
    ELSE show_file_modal(a)

\* app.rs:561-563, Iterator::position(..).unwrap_or(0): the 0-based index
\* of the first entry equal to current_dir, 0 when there is none
HistoryPosition(a) ==
    LET found == {i \in DOMAIN a.directory_history :
                    a.directory_history[i] = a.current_dir}
    IN  IF found = {} THEN 0
        ELSE (CHOOSE i \in found : \A j \in found : i <= j) - 1

\* app.rs:559-571, given the index current_dir was found at
KeyBackFrom(a, current_index) ==
    IF a.selected_panel = "FileExplorer" /\ Len(a.directory_history) > 1 THEN
        IF current_index > 0
        THEN Navigated(NavigateOrRecover(a, a.directory_history[current_index]))
        ELSE Done(a)
    ELSE Done(a)

\* a 'b' that goes back from the newest entry of the history, wherever
\* the current directory is in it
KeyBackFromNewest(a) == KeyBackFrom(a, Len(a.directory_history) - 1)

\* app.rs:557-572
KeyBack(a) == KeyBackFrom(a, HistoryPosition(a))

\* app.rs:573-582
KeyBackspace(a) ==
    IF a.selected_panel = "FileExplorer" THEN
        LET parent == PathParent(a.current_dir)
        IN  IF parent # None THEN Navigated(NavigateOrRecover(a, parent[1]))
            ELSE Done(a)
    ELSE Done(a)

\* App::handle_key_event (app.rs:375-585)
handle_key_event(a, key, overflow_checks) ==
    IF a.show_help THEN
        IF key \in {"Esc", "?", "h"} THEN Done([a EXCEPT !.show_help = FALSE])
        ELSE Done(a)
    ELSE IF key \in {"q", "Esc"} THEN
        IF a.show_modal THEN Done(hide_modal(a))
        ELSE IF a.show_help THEN Done([a EXCEPT !.show_help = FALSE])
        ELSE Done([a EXCEPT !.should_quit = TRUE])
    ELSE IF key \in {"Left", "h"} THEN Done(select_previous_panel(a))
    ELSE IF key \in {"Right", "l"} THEN Done(select_next_panel(a))
    ELSE IF key \in {"Up", "k"} THEN KeyUp(a)
    ELSE IF key \in {"Down", "j"} THEN KeyDown(a, overflow_checks)
    ELSE IF key = "PageUp" THEN KeyPageUp(a)
    ELSE IF key = "PageDown" THEN KeyPageDown(a)
    ELSE IF key = "Home" THEN KeyHome(a)
    ELSE IF key = "End" THEN KeyEnd(a)
    ELSE IF key = "Enter" THEN
        IF a.selected_panel = "FileExplorer"
        THEN Navigated(navigate_into_selected(a))
        ELSE Done(a)
    ELSE IF key = "r" THEN KeyRefresh(a)
    ELSE IF key = "?" THEN Done([a EXCEPT !.show_help = TRUE])
    ELSE IF key = "i" THEN KeyInfo(a)
    ELSE IF key = "b" THEN KeyBack(a)
    ELSE IF key = "Backspace" THEN KeyBackspace(a)
    ELSE Done(a)

(***************************************************************************)
(* Ghost state.  call records the operation of the last step: its name,    *)
(* its inputs, its result and the navigation attempts it made.  ghost      *)
(* records, per deque, every value pushed since the last clear(), the      *)
(* counters read by the last RecentWindow ingests since the last clear(),  *)
(* oldest first, the number of update() calls, the clock at the last       *)
(* update() that refreshed (App::new counts as one) and the clock at the   *)
(* last 'r' that re-queried the provider, if any.                           *)
(***************************************************************************)
RecentWindow == 4

NoCall ==
    [op |-> "new", key |-> "", target |-> EmptyPath, ok |-> FALSE,
     log |-> <<>>, refreshed |-> FALSE, ingested |-> FALSE, rx |-> 0, tx |-> 0,
     appended |-> NoAppend, given |-> <<>>,
     listing |-> [items |-> <<>>, paths |-> <<>>]]

GhostNew ==
    [pushed |-> NoAppend, recent |-> <<>>, updates |-> 0,
     periodic_at |-> 0, manual_at |-> <<>>]

Deques == {"rx_history", "tx_history", "rx_rates", "tx_rates"}

\* the last n elements of a sequence
LastN(s, n) == IF Len(s) <= n THEN s ELSE SubSeq(s, Len(s) - n + 1, Len(s))

GhostAfterUpdate(g, item, appended) ==
    [g EXCEPT
       !.pushed = [d \in Deques |-> g.pushed[d] \o appended[d]],
       !.recent = IF item = None THEN g.recent
                  ELSE LastN(Append(g.recent,
                                    [rx |-> item[1].total_received,
                                     tx |-> item[1].total_transmitted]),
                             RecentWindow),
       !.updates = g.updates + 1]

\* the clock at the last update() that refreshed
GhostAfterTick(g, refreshed) ==
    IF refreshed THEN [g EXCEPT !.periodic_at = now] ELSE g

\* the clock at the last 'r' that called system.refresh_all()
GhostAfterKey(g, refresh_system) ==
    IF refresh_system THEN [g EXCEPT !.manual_at = Some(now)] ELSE g

GhostAfterClear(g) == [g EXCEPT !.pushed = NoAppend, !.recent = <<>>]

(***************************************************************************)
(* SpecNet: NetworkHistory driven through its two methods, update() and    *)
(* clear(), with every provider reading of one interface whose counters    *)
(* range over 0..MaxCounter, for at most MaxUpdates calls of update().     *)
(***************************************************************************)
MaxCounter == 2
MaxUpdates == 4

Interface(name, rx, tx) ==
    [name |-> name, total_received |-> rx, total_transmitted |-> tx]

NetInputs ==
    {<<>>} \cup {<<Interface("eth0", rx, tx)>> : rx \in 0..MaxCounter,
                                                 tx \in 0..MaxCounter}

QuietEnv ==
    /\ fs = [d \in Volatile |-> "ok"]
    /\ cwd = Root
    /\ home = None
    /\ sys_processes = <<>>
    /\ networks = <<>>
    /\ now = 0
    /\ panicked = FALSE

InitNet ==
    /\ QuietEnv
    /\ app = AppNew
    /\ call = NoCall
    /\ ghost = GhostNew

CallUpdate(nets, selected_interface) ==
    LET r == NetworkHistoryUpdate(app.network_history, nets, selected_interface)
        item == ResolveInterface(nets, selected_interface)
    IN  /\ app' = [app EXCEPT !.network_history = r.nh]
        /\ networks' = nets
        /\ ghost' = GhostAfterUpdate(ghost, item, r.appended)
        /\ call' = [NoCall EXCEPT
                      !.op = "update",
                      !.ingested = (item # None),
                      !.rx = IF item = None THEN 0 ELSE item[1].total_received,
                      !.tx = IF item = None THEN 0
                             ELSE item[1].total_transmitted,
                      !.appended = r.appended]
        /\ UNCHANGED <<fs, cwd, home, sys_processes, now, panicked>>

CallClear ==
    /\ app' = [app EXCEPT !.network_history = NetworkHistoryClear(@)]
    /\ ghost' = GhostAfterClear(ghost)
    /\ call' = [NoCall EXCEPT !.op = "clear"]
    /\ UNCHANGED <<fs, cwd, home, sys_processes, networks, now, panicked>>

NetUpdate ==
    /\ ghost.updates < MaxUpdates
    /\ \E nets \in NetInputs, sel \in {"", "eth0"} : CallUpdate(nets, sel)

NetClear == CallClear

NextNet == NetUpdate \/ NetClear

SpecNet == InitNet /\ [][NextNet]_vars

(***************************************************************************)
(* SpecNetLong: a long run of update() on one interface whose counters     *)
(* grow by a larger step at every reading, with clear() at any moment:     *)
(* LongUpdates calls are enough to overfill every deque.                   *)
(***************************************************************************)
LongUpdates == 62

SteadyInputs ==
    IF ghost.recent = <<>> /\ ghost.updates = 0
    THEN {<<Interface("eth0", rx, tx)>> : rx \in 1..2, tx \in 1..2}
    ELSE LET last == IF ghost.recent = <<>>
                     THEN [rx |-> networks[1].total_received,
                           tx |-> networks[1].total_transmitted]
                     ELSE ghost.recent[Len(ghost.recent)]
         IN  {<<Interface("eth0", last.rx + ghost.updates,
                          last.tx + 2 * ghost.updates)>>}

LongUpdate ==
    /\ ghost.updates < LongUpdates
    /\ \E nets \in SteadyInputs : CallUpdate(nets, "eth0")

LongClear == ghost.updates > 0 /\ CallClear

NextNetLong == LongUpdate \/ LongClear

SpecNetLong == InitNet /\ [][NextNetLong]_vars

(***************************************************************************)
(* SpecNav: the navigation methods called one at a time, on a file system  *)
(* that changes between the calls.  The program starts in any of           *)
(* StartDirs, with or without $HOME, on any status of the volatile         *)
(* directories.                                                            *)
(***************************************************************************)
StartDirs == {Chain(1)}
HomeChoices == {None, Some(HomeDir)}
Targets == {Chain(1), Chain(2), Join(Root, NameZ)}
FocusKeys == {"Right", "Down"}

InitNav ==
    /\ fs \in FsStates
    /\ cwd \in StartDirs
    /\ home \in HomeChoices
    /\ home = None => fs[HomeDir] = "ok"
    /\ sys_processes = <<>>
    /\ networks = <<>>
    /\ now = 0
    /\ panicked = FALSE
    /\ app = AppNew
    /\ call = NoCall
    /\ ghost = GhostNew

NavFrame == UNCHANGED <<fs, cwd, home, sys_processes, networks, now, ghost>>

NavTry ==
    \E target \in Targets :
        LET r == try_navigate_to_directory(app, target)
        IN  /\ ~panicked
            /\ app' = r.app
            /\ call' = [NoCall EXCEPT !.op = "try_navigate", !.target = target,
                                      !.ok = r.ok, !.log = r.log]
            /\ UNCHANGED panicked
            /\ NavFrame

NavRecover ==
    LET r == navigate_back_to_safe_directory(app)
    IN  /\ ~panicked
        /\ app' = r.app
        /\ call' = [NoCall EXCEPT !.op = "recover", !.ok = r.ok, !.log = r.log]
        /\ UNCHANGED panicked
        /\ NavFrame

\* a key that moves the panel focus or the file cursor
NavKey ==
    \E key \in FocusKeys, overflow_checks \in BOOLEAN :
        LET r == handle_key_event(app, key, overflow_checks)
        IN  /\ ~panicked
            /\ app' = r.app
            /\ panicked' = r.panic
            /\ call' = [NoCall EXCEPT !.op = "key", !.key = key, !.log = r.log]
            /\ NavFrame

FsChange ==
    \E d \in Volatile, status \in {"ok", "denied", "gone"} :
        /\ ~panicked
        /\ fs[d] # status
        /\ [fs EXCEPT ![d] = status] \in FsStates
        /\ d = HomeDir => home # None
        /\ fs' = [fs EXCEPT ![d] = status]
        /\ call' = [NoCall EXCEPT !.op = "env"]
        /\ UNCHANGED <<app, cwd, home, sys_processes, networks, now, panicked,
                       ghost>>

NextNav == NavTry \/ NavRecover \/ NavKey \/ FsChange

SpecNav == InitNav /\ [][NextNav]_vars

(***************************************************************************)
(* SpecApp: the program as main.rs runs it (run, src/src/main.rs:462-483): *)
(* App::new, then update() on every turn of the loop and                   *)
(* handle_key_event for every key read, until should_quit.  The clock      *)
(* advances by ClockStep between the steps, for at most MaxTicks update    *)
(* intervals; the provider reports any of ProcSnapshots and NetSnapshots   *)
(* whenever it is refreshed.  The file system is readable and at rest.     *)
(***************************************************************************)
MaxProcs == 2
MaxTicks == 1

ClockStep == UPDATE_INTERVAL
MaxClock == MaxTicks * UPDATE_INTERVAL

Process(pid) == [pid |-> pid, cpu_usage |-> pid]

ProcSnapshots == {[i \in 1..n |-> Process(i)] : n \in 0..MaxProcs}

NetSnapshots ==
    {<<>>, <<Interface("eth0", 1, 1)>>,
     <<Interface("eth0", 1, 1), Interface("lo", 1, 1)>>}

AppKeys == {"q", "Esc", "Left", "Right", "Up", "Down", "End", "?", "i", "x"}

InitApp ==
    /\ fs = [d \in Volatile |-> "ok"]
    /\ cwd = HomeDir
    /\ home = Some(HomeDir)
    /\ sys_processes = [i \in 1..MaxProcs |-> Process(i)]
    /\ networks = <<Interface("eth0", 1, 1), Interface("lo", 1, 1)>>
    /\ now = 0
    /\ panicked = FALSE
    /\ app = AppNew
    /\ call = NoCall
    /\ ghost = GhostNew

Running == ~panicked /\ ~app.should_quit

\* app.update() when the provider would report procs and nets
CallAppUpdate(procs, nets) ==
    LET r == AppUpdate(app, procs, nets)
    IN  /\ app' = r.app
        /\ sys_processes' = IF r.refreshed THEN procs ELSE sys_processes
        /\ networks' = IF r.refreshed THEN nets ELSE networks
        /\ call' = [NoCall EXCEPT !.op = "tick", !.refreshed = r.refreshed,
                                  !.appended = r.appended]
        /\ ghost' = GhostAfterTick(ghost, r.refreshed)
        /\ UNCHANGED <<fs, cwd, home, now, panicked>>

\* app.handle_key_event(key) when the provider would report procs
CallKey(key, overflow_checks, procs) ==
    LET r == handle_key_event(app, key, overflow_checks)
    IN  /\ key # "r" => procs = sys_processes
        /\ key \notin {"Down", "j"} => overflow_checks
        /\ app' = r.app
        /\ panicked' = r.panic
        /\ sys_processes' = IF r.refresh_system THEN procs ELSE sys_processes
        /\ call' = [NoCall EXCEPT !.op = "key", !.key = key, !.log = r.log,
                                  !.refreshed = r.refresh_system]
        /\ ghost' = GhostAfterKey(ghost, r.refresh_system)
        /\ UNCHANGED <<fs, cwd, home, networks, now>>

\* the clock moves on by step
CallClock(step) ==
    /\ now' = now + step
    /\ call' = [NoCall EXCEPT !.op = "clock"]
    /\ UNCHANGED <<app, fs, cwd, home, sys_processes, networks, panicked,
                   ghost>>

\* main.rs:466, update() on a turn where the interval has elapsed
AppTick ==
    \E procs \in ProcSnapshots, nets \in NetSnapshots :
        /\ Running
        /\ now - app.last_update >= UPDATE_INTERVAL
        /\ CallAppUpdate(procs, nets)

\* main.rs:471-475, a key is read and handled
AppKey ==
    \E key \in AppKeys, overflow_checks \in BOOLEAN, procs \in ProcSnapshots :
        Running /\ CallKey(key, overflow_checks, procs)

\* time passes
AppClock == Running /\ now < MaxClock /\ CallClock(ClockStep)

NextApp == AppTick \/ AppKey \/ AppClock

SpecApp == InitApp /\ [][NextApp]_vars

(***************************************************************************)
(* SpecNetPanel: the Network Graph panel of the running program.  The      *)
(* provider reports eth0 and lo, both, one or none, in either order (the   *)
(* order of a HashMap), with fixed counters; the user moves the focus and  *)
(* the cursor; update() runs once per update interval, MaxRefreshes times  *)
(* at most.                                                                *)
(***************************************************************************)
MaxRefreshes == 3

Eth0 == Interface("eth0", 1, 1)
Lo == Interface("lo", 2, 2)

PanelSnapshots == {<<>>, <<Eth0>>, <<Lo>>, <<Eth0, Lo>>, <<Lo, Eth0>>}

PanelKeys == {"Left", "Up", "Down"}

InitNetPanel ==
    /\ fs = [d \in Volatile |-> "ok"]
    /\ cwd = HomeDir
    /\ home = Some(HomeDir)
    /\ sys_processes = <<>>
    /\ networks \in PanelSnapshots
    /\ now = 0
    /\ panicked = FALSE
    /\ app = AppNew
    /\ call = NoCall
    /\ ghost = GhostNew

PanelTick ==
    \E nets \in PanelSnapshots :
        /\ Running
        /\ now - app.last_update >= UPDATE_INTERVAL
        /\ CallAppUpdate(<<>>, nets)

PanelKey == \E key \in PanelKeys : Running /\ CallKey(key, TRUE, <<>>)

PanelClock ==
    /\ Running
    /\ now < MaxRefreshes * UPDATE_INTERVAL
    /\ CallClock(UPDATE_INTERVAL)

NextNetPanel == PanelTick \/ PanelKey \/ PanelClock

SpecNetPanel == InitNetPanel /\ [][NextNetPanel]_vars

(***************************************************************************)
(* SpecSched: the two timers of the running program.  Every turn of the    *)
(* loop of run (main.rs:465-482) calls update() and waits at most          *)
(* POLL_TIMEOUT for a key; the clock advances by POLL_TIMEOUT, for         *)
(* MaxTurns turns, and the user presses 'r' at any moment.  The provider   *)
(* reports one or two processes and one interface.                         *)
(***************************************************************************)
POLL_TIMEOUT == 100
MaxTurns == 42

SchedProcs == {<<Process(1)>>, <<Process(1), Process(2)>>}
SchedNets == <<Eth0>>
SchedKeys == {"r"}

InitSched ==
    /\ fs = [d \in Volatile |-> "ok"]
    /\ cwd = HomeDir
    /\ home = Some(HomeDir)
    /\ sys_processes \in SchedProcs
    /\ networks = SchedNets
    /\ now = 0
    /\ panicked = FALSE
    /\ app = AppNew
    /\ call = NoCall
    /\ ghost = GhostNew

\* update() on every turn, whether the interval has elapsed or not
SchedTick ==
    \E procs \in SchedProcs : Running /\ CallAppUpdate(procs, SchedNets)

SchedKey ==
    \E key \in SchedKeys, procs \in SchedProcs :
        Running /\ CallKey(key, TRUE, procs)

SchedClock ==
    /\ Running
    /\ now < MaxTurns * POLL_TIMEOUT
    /\ CallClock(POLL_TIMEOUT)

NextSched == SchedTick \/ SchedKey \/ SchedClock

SpecSched == InitSched /\ [][NextSched]_vars

(***************************************************************************)
(* SpecHist: the file explorer walked with its keys, from the root of a    *)
(* file system that does not change and whose home directory is           *)
(* unreadable.  The focus is brought to the File Explorer panel and stays  *)
(* there; the cursor keys, Enter and Backspace take the program down and   *)
(* up the chain of nested directories.  To keep the walk finite the user   *)
(* stops going upward once the first directory of the chain has left the   *)
(* history.                                                                *)
(***************************************************************************)
HistKeys == {"Left", "Down", "Enter", "Backspace"}

InitHist ==
    /\ fs = [d \in Volatile |-> IF d = HomeDir THEN "denied" ELSE "ok"]
    /\ cwd = Root
    /\ home = Some(HomeDir)
    /\ sys_processes = <<>>
    /\ networks = <<>>
    /\ now = 0
    /\ panicked = FALSE
    /\ app = AppNew
    /\ call = NoCall
    /\ ghost = GhostNew

\* the key asks for the parent directory: Backspace, or Enter on ".."
LeadsUp(key) == key = "Backspace" \/ (key = "Enter" /\ app.selected_file = 0)

HistKey ==
    \E key \in HistKeys, overflow_checks \in BOOLEAN :
        /\ Running
        /\ key = "Left" => app.selected_panel # "FileExplorer"
        /\ LeadsUp(key) => Contains(app.directory_history, Chain(1))
        /\ CallKey(key, overflow_checks, sys_processes)

NextHist == HistKey

SpecHist == InitHist /\ [][NextHist]_vars

(***************************************************************************)
(* SpecBack: the walk of SpecHist with the 'b' key in place of the keys    *)
(* that lead up: the user goes down the chain of nested directories and    *)
(* back through the history, on a file system that does not change.        *)
(***************************************************************************)
BackKeys == {"Left", "Down", "Enter", "b"}

BackKey ==
    \E key \in BackKeys, overflow_checks \in BOOLEAN :
        /\ Running
        /\ key = "Left" => app.selected_panel # "FileExplorer"
        /\ ~LeadsUp(key)
        /\ CallKey(key, overflow_checks, sys_processes)

NextBack == BackKey

SpecBack == InitHist /\ [][NextBack]_vars

(***************************************************************************)
(* SpecExplorer: the file explorer used with its keys on a file system     *)
(* that changes between the key presses.  The program starts in any of     *)
(* ExplorerStarts on any status of the volatile directories, so that its   *)
(* first listing may be the error sentinel; the focus is brought to the    *)
(* File Explorer panel and stays there; Enter is pressed in directories    *)
(* less than MaxDescent below the root.                                    *)
(***************************************************************************)
MaxDescent == 2

ExplorerStarts == {Root, Chain(1)}
ExplorerKeys == {"Left", "Down", "Enter", "b"}

InitExplorer ==
    /\ fs \in FsStates
    /\ cwd \in ExplorerStarts
    /\ home = Some(HomeDir)
    /\ sys_processes = <<>>
    /\ networks = <<>>
    /\ now = 0
    /\ panicked = FALSE
    /\ app = AppNew
    /\ call = NoCall
    /\ ghost = GhostNew

ExplorerKey ==
    \E key \in ExplorerKeys, overflow_checks \in BOOLEAN :
        /\ Running
        /\ key = "Left" => app.selected_panel # "FileExplorer"
        /\ key = "Enter" => Len(app.current_dir.comps) < MaxDescent
        /\ CallKey(key, overflow_checks, sys_processes)

NextExplorer == ExplorerKey \/ FsChange

SpecExplorer == InitExplorer /\ [][NextExplorer]_vars

(***************************************************************************)
(* SpecCursor: SpecExplorer with every key that moves the file cursor or   *)
(* replaces the listing: the cursor, page, Home and End keys, Enter, 'b',  *)
(* Backspace and 'r', which is served once the cooldown since the start    *)
(* has passed.                                                             *)
(***************************************************************************)
CursorKeys == {"Left", "Up", "Down", "PageUp", "PageDown", "Home", "End",
               "Enter", "b", "Backspace", "r"}

CursorKey ==
    \E key \in CursorKeys, overflow_checks \in BOOLEAN :
        /\ Running
        /\ key = "Left" => app.selected_panel # "FileExplorer"
        /\ key = "Enter" => Len(app.current_dir.comps) < MaxDescent
        /\ CallKey(key, overflow_checks, sys_processes)

CursorClock ==
    /\ Running
    /\ now < MANUAL_REFRESH_COOLDOWN
    /\ CallClock(MANUAL_REFRESH_COOLDOWN)

NextCursor == CursorKey \/ FsChange \/ CursorClock

SpecCursor == InitExplorer /\ [][NextCursor]_vars

(***************************************************************************)
(* SpecList: read_directory's Ok arm applied to every enumeration of up    *)
(* to MaxEntries entries with distinct names from EntryNames, in / and in  *)
(* /n.  Whether an entry is a directory is what the file system says of    *)
(* its path: /n, /home and /n/n are directories, every other name a file.  *)
(* Two of the names are longer than FILE_NAME_MAX_LEN and differ only in   *)
(* their last byte, so that their labels are the same.                     *)
(***************************************************************************)
MaxEntries == 3

LongStem == [i \in 1..FILE_NAME_MAX_LEN |-> 97]
LongA == LongStem \o <<65>>
LongB == LongStem \o <<66>>
EntryNames == {NameN, NameHome, NameF, NameZ, LongA, LongB}
ListedDirs == {Root, Chain(1)}

\* the enumerations of n entries of path
RECURSIVE Enumerations(_, _)
Enumerations(path, n) ==
    IF n = 0 THEN {<<>>}
    ELSE {Append(es, [name |-> name, is_dir |-> IsDir(Join(path, name))]) :
            es \in Enumerations(path, n - 1),
            name \in EntryNames}

HasNoNameTwice(es) == \A i, j \in DOMAIN es : es[i].name = es[j].name => i = j

\* the enumerations of at most MaxEntries entries of path, no name twice
ListInputs(path) ==
    {es \in UNION {Enumerations(path, n) : n \in 0..MaxEntries} :
        HasNoNameTwice(es)}

InitList ==
    /\ fs = [d \in Volatile |-> "ok"]
    /\ cwd = HomeDir
    /\ home = Some(HomeDir)
    /\ sys_processes = <<>>
    /\ networks = <<>>
    /\ now = 0
    /\ panicked = FALSE
    /\ app = AppNew
    /\ call = NoCall
    /\ ghost = GhostNew

ListDirectory ==
    \E path \in ListedDirs :
      \E entries \in ListInputs(path) :
        /\ call' = [NoCall EXCEPT !.op = "list", !.target = path,
                                  !.given = entries,
                                  !.listing = BuildListing(path, entries)]
        /\ UNCHANGED <<app, fs, cwd, home, sys_processes, networks, now,
                       panicked, ghost>>

NextList == ListDirectory

SpecList == InitList /\ [][NextList]_vars

(***************************************************************************)
(* SpecCache: update() called on every turn of a clock that advances by    *)
(* UPDATE_INTERVAL, for MaxRefreshes intervals, while the provider reports *)
(* any of CacheProcs and CacheNets: every list of up to MaxListed          *)
(* processes whose cpu_usage is NaN or one of two values, and no interface *)
(* or one.                                                                 *)
(***************************************************************************)
MaxListed == 3

CpuValues == {NaN, 1, 2}

\* the processes with the cpu_usage values cpus, their pids in provider order
Listed(cpus) == [i \in DOMAIN cpus |-> [pid |-> i, cpu_usage |-> cpus[i]]]

RECURSIVE CpuLists(_)
CpuLists(n) ==
    IF n = 0 THEN {<<>>}
    ELSE {Append(cpus, c) : cpus \in CpuLists(n - 1), c \in CpuValues}

CacheProcs ==
    {Listed(cpus) : cpus \in UNION {CpuLists(n) : n \in 0..MaxListed}}

CacheNets == {<<>>, <<Eth0>>}

InitCache ==
    /\ fs = [d \in Volatile |-> "ok"]
    /\ cwd = HomeDir
    /\ home = Some(HomeDir)
    /\ sys_processes \in {<<>>, Listed(<<1, 2>>)}
    /\ networks \in CacheNets
    /\ now = 0
    /\ panicked = FALSE
    /\ app = AppNew
    /\ call = NoCall
    /\ ghost = GhostNew

\* what the provider would report matters only to an update() that asks
CacheTick ==
    \E procs \in CacheProcs, nets \in CacheNets :
        /\ Running
        /\ now - app.last_update < UPDATE_INTERVAL
              => procs = sys_processes /\ nets = networks
        /\ CallAppUpdate(procs, nets)

CacheClock ==
    /\ Running
    /\ now < MaxRefreshes * UPDATE_INTERVAL
    /\ CallClock(UPDATE_INTERVAL)

NextCache == CacheTick \/ CacheClock

SpecCache == InitCache /\ [][NextCache]_vars

(***************************************************************************)
(* SpecFocus: update() called on every turn of a clock that advances by    *)
(* UPDATE_INTERVAL, while the provider reports three processes or none,    *)
(* one interface or none, and the user changes the panel and moves the     *)
(* cursor of the focused panel between the turns.                          *)
(***************************************************************************)
FocusProcs == {<<>>, Listed(<<1, 2, 2>>)}
FocusNets == {<<>>, <<Eth0>>}
FocusPanelKeys == {"Right", "Down"}

InitFocus ==
    /\ fs = [d \in Volatile |-> "ok"]
    /\ cwd = HomeDir
    /\ home = Some(HomeDir)
    /\ sys_processes = Listed(<<1, 2, 2>>)
    /\ networks = <<Eth0>>
    /\ now = 0
    /\ panicked = FALSE
    /\ app = AppNew
    /\ call = NoCall
    /\ ghost = GhostNew

FocusTick ==
    \E procs \in FocusProcs, nets \in FocusNets :
        /\ Running
        /\ now - app.last_update < UPDATE_INTERVAL
              => procs = sys_processes /\ nets = networks
        /\ CallAppUpdate(procs, nets)

FocusKey ==
    \E key \in FocusPanelKeys, overflow_checks \in BOOLEAN :
        /\ Running
        /\ CallKey(key, overflow_checks, sys_processes)

FocusClock ==
    /\ Running
    /\ now < MaxRefreshes * UPDATE_INTERVAL
    /\ CallClock(UPDATE_INTERVAL)

NextFocus == FocusTick \/ FocusKey \/ FocusClock

SpecFocus == InitFocus /\ [][NextFocus]_vars

(***************************************************************************)
(* SpecKeys: every key of the program, on caches and a history that hold   *)
(* data.  The program starts in /n with three processes and two            *)
(* interfaces reported; update() refreshes once per UPDATE_INTERVAL for    *)
(* MaxTicks intervals and, once it has refreshed, handle_key_event is      *)
(* called with any key.  To keep the runs apart the user chooses a panel   *)
(* first and stays on it once a cursor has moved, a modal is open or the   *)
(* directory has changed; Enter and Backspace are pressed in the starting  *)
(* directory.                                                              *)
(***************************************************************************)
KeysProcs == Listed(<<1, 2, 2>>)
KeysNets == <<Eth0, Lo>>

InitKeys ==
    /\ fs = [d \in Volatile |-> "ok"]
    /\ cwd = Chain(1)
    /\ home = Some(HomeDir)
    /\ sys_processes = KeysProcs
    /\ networks = KeysNets
    /\ now = 0
    /\ panicked = FALSE
    /\ app = AppNew
    /\ call = NoCall
    /\ ghost = GhostNew

\* nothing has been done on the focused panel yet
PanelUntouched ==
    /\ app.selected_process = 0
    /\ app.selected_file = 0
    /\ app.selected_network = 0
    /\ ~app.show_modal
    /\ app.current_dir = cwd

KeysTick ==
    /\ Running
    /\ now - app.last_update >= UPDATE_INTERVAL
    /\ CallAppUpdate(KeysProcs, KeysNets)

KeysKey ==
    \E key \in Keys, overflow_checks \in BOOLEAN :
        /\ Running
        /\ app.last_update > 0
        /\ key \in {"Left", "h", "Right", "l"} => PanelUntouched
        /\ key \in {"Enter", "Backspace"} => app.current_dir = cwd
        /\ CallKey(key, overflow_checks, sys_processes)

KeysClock ==
    /\ Running
    /\ now < MaxTicks * UPDATE_INTERVAL
    /\ CallClock(UPDATE_INTERVAL)

NextKeys == KeysTick \/ KeysKey \/ KeysClock

SpecKeys == InitKeys /\ [][NextKeys]_vars

(***************************************************************************)
(* SpecRun: the loop of run (main.rs:462-483), one step per statement.     *)
(* call.op tells where the loop stands: after "new" and "loop" comes       *)
(* app.update(), after "tick" terminal.draw, after "draw" the poll for an  *)
(* event, after "key" and "idle" the test of should_quit, which goes on    *)
(* to "loop" or leaves with "exit"; "draw_err" and "read_err" are the      *)
(* returns through the two ? operators.  A poll without an event takes     *)
(* POLL_TIMEOUT; the provider reports two processes or one, and eth0 with  *)
(* growing counters.                                                       *)
(***************************************************************************)
RunProcs == {Listed(<<1, 2>>), Listed(<<1>>)}
RunNets == {<<Interface("eth0", 1, 1)>>, <<Interface("eth0", 3, 4)>>}
RunKeys == {"q", "Esc", "Left", "Right", "Down", "i", "?", "x"}

InitRun ==
    /\ fs = [d \in Volatile |-> "ok"]
    /\ cwd = HomeDir
    /\ home = Some(HomeDir)
    /\ sys_processes \in RunProcs
    /\ networks \in RunNets
    /\ now = 0
    /\ panicked = FALSE
    /\ app = AppNew
    /\ call = NoCall
    /\ ghost = GhostNew

\* a loop that handles the event before it draws: the values of call.op
\* after which a statement would run
RunsAfterEventFirst(statement) ==
    CASE statement = "update" -> {"new", "loop"}
      [] statement = "event" -> {"tick"}
      [] statement = "draw" -> {"key", "idle"}
      [] statement = "check" -> {"draw"}

\* main.rs:465-482, the order of the statements of the loop: the values of
\* call.op after which a statement runs
RunsAfter(statement) ==
    CASE statement = "update" -> {"new", "loop"}
      [] statement = "draw" -> {"tick"}
      [] statement = "event" -> {"draw"}
      [] statement = "check" -> {"key", "idle"}

\* main.rs:464, 482 -> 466
RunUpdate ==
    \E procs \in RunProcs, nets \in RunNets :
        /\ ~panicked
        /\ call.op \in RunsAfter("update")
        /\ now - app.last_update < UPDATE_INTERVAL
                => procs = sys_processes /\ nets = networks
        /\ CallAppUpdate(procs, nets)

\* main.rs:467, the frame is drawn from app, or the terminal fails and ?
\* returns the error
RunDraw ==
    \E drawn \in BOOLEAN :
        /\ ~panicked
        /\ call.op \in RunsAfter("draw")
        /\ call' = [NoCall EXCEPT !.op = IF drawn THEN "draw" ELSE "draw_err"]
        /\ UNCHANGED <<app, fs, cwd, home, sys_processes, networks, now,
                       panicked, ghost>>

\* main.rs:469-475, a key press is waiting
RunKey ==
    \E key \in RunKeys :
        /\ ~panicked
        /\ call.op \in RunsAfter("event")
        /\ key \in {"Left", "Right"} => PanelUntouched
        /\ CallKey(key, TRUE, sys_processes)

\* main.rs:469-470, no event within the timeout
RunIdle ==
    /\ ~panicked
    /\ call.op \in RunsAfter("event")
    /\ now < MaxTurns * POLL_TIMEOUT
    /\ now' = now + POLL_TIMEOUT
    /\ call' = [NoCall EXCEPT !.op = "idle"]
    /\ UNCHANGED <<app, fs, cwd, home, sys_processes, networks, panicked,
                   ghost>>

\* main.rs:471, event::read fails and ? returns the error
RunReadError ==
    /\ ~panicked
    /\ call.op \in RunsAfter("event")
    /\ call' = [NoCall EXCEPT !.op = "read_err"]
    /\ UNCHANGED <<app, fs, cwd, home, sys_processes, networks, now,
                   panicked, ghost>>

\* main.rs:479-481
RunCheck ==
    /\ ~panicked
    /\ call.op \in RunsAfter("check")
    /\ call' = [NoCall EXCEPT
                   !.op = IF app.should_quit THEN "exit" ELSE "loop"]
    /\ UNCHANGED <<app, fs, cwd, home, sys_processes, networks, now,
                   panicked, ghost>>

NextRun ==
    RunUpdate \/ RunDraw \/ RunKey \/ RunIdle \/ RunReadError \/ RunCheck

SpecRun == InitRun /\ [][NextRun]_vars

(***************************************************************************)
(* SpecCrowd: as SpecCache, with a provider that reports no process, two   *)
(* processes or one process more than MAX_PROCESSES, and no interface, one *)
(* interface or one interface more than MAX_NETWORKS.                      *)
(***************************************************************************)
Crowd ==
    [i \in 1..(MAX_PROCESSES + 1) |->
        [pid |-> i, cpu_usage |-> MAX_PROCESSES + 2 - i]]

CrowdProcs == {<<>>, Listed(<<1, 2>>), Crowd}

ManyNets ==
    [i \in 1..(MAX_NETWORKS + 1) |-> Interface("if" \o ToString(i), i, i)]

CrowdNets == {<<>>, <<Eth0>>, ManyNets}

InitCrowd ==
    /\ fs = [d \in Volatile |-> "ok"]
    /\ cwd = HomeDir
    /\ home = Some(HomeDir)
    /\ sys_processes \in CrowdProcs
    /\ networks \in CrowdNets
    /\ now = 0
    /\ panicked = FALSE
    /\ app = AppNew
    /\ call = NoCall
    /\ ghost = GhostNew

CrowdTick ==
    \E procs \in CrowdProcs, nets \in CrowdNets :
        /\ Running
        /\ now - app.last_update < UPDATE_INTERVAL
              => procs = sys_processes /\ nets = networks
        /\ CallAppUpdate(procs, nets)

CrowdClock ==
    /\ Running
    /\ now < MaxRefreshes * UPDATE_INTERVAL
    /\ CallClock(UPDATE_INTERVAL)

NextCrowd == CrowdTick \/ CrowdClock

SpecCrowd == InitCrowd /\ [][NextCrowd]_vars

(***************************************************************************)
(* Properties of navigation.                                               *)
(***************************************************************************)
\* the navigation state of an App
NavState(a) ==
    <<a.current_dir, a.dir_entries, a.dir_entry_paths, a.selected_file,
      a.directory_history, a.last_successful_dir>>

TryStep == call'.op = "try_navigate"
RecoverStep == call'.op = "recover"

\* C1: try_navigate_to_directory to a target that fs::read_dir cannot list
\* returns false and leaves current_dir, dir_entries, dir_entry_paths,
\* selected_file, directory_history and last_successful_dir as they were.
C1_FailedNavigateChangesNothing ==
    [][TryStep /\ ~ReadOk(call'.target)
       => ~call'.ok /\ NavState(app') = NavState(app)]_vars

\* C1 witness: a navigation to a directory that is gone has failed while
\* the file cursor was away from the first entry
C1_Witness ==
    /\ call.op = "try_navigate" /\ ~call.ok
    /\ call.target \in Dirs /\ call.target # app.current_dir
    /\ app.selected_file > 0

\* C2: try_navigate_to_directory to a target that fs::read_dir can list
\* returns true and commits current_dir = target, the listing of target,
\* selected_file = 0 and last_successful_dir = target; the target is
\* appended to directory_history when the history did not hold it, and the
\* history is left alone when it did.
C2_SuccessfulNavigateCommits ==
    [][LET target == call'.target
           listing == BuildListing(target, DirEntries(target))
           before == app.directory_history
           after == app'.directory_history IN
        TryStep /\ ReadOk(target)
        => /\ call'.ok
           /\ app'.current_dir = target
           /\ app'.dir_entries = listing.items
           /\ app'.dir_entry_paths = listing.paths
           /\ app'.selected_file = 0
           /\ app'.last_successful_dir = target
           /\ IF Contains(before, target) THEN after = before
              ELSE /\ Len(after) = Min(Len(before) + 1, MAX_DIRECTORY_HISTORY)
                   /\ after[Len(after)] = target
                   /\ \A i \in 1..(Len(after) - 1) :
                          after[i] = before[Len(before) - Len(after) + 1 + i]]_vars

\* C2 witness: a navigation into a directory not seen before has succeeded
\* and the history has grown by it
C2_Witness ==
    /\ call.op = "try_navigate" /\ call.ok
    /\ app.current_dir = call.target
    /\ app.current_dir = Chain(2)
    /\ app.directory_history = <<Chain(1), Chain(2)>>
    /\ Len(app.dir_entries) = Len(RawEntries(Chain(2))) + 1

\* the candidates of a recovery, in the order of the code
Candidates(a) ==
    (IF a.last_successful_dir # a.current_dir
     THEN <<a.last_successful_dir>> ELSE <<>>)
    \o (IF PathParent(a.current_dir) # None
        THEN <<PathParent(a.current_dir)[1]>> ELSE <<>>)
    \o (IF home # None THEN <<home[1]>> ELSE <<>>)
    \o (IF EnvCurrentDir # None THEN <<EnvCurrentDir[1]>> ELSE <<>>)

\* C3: navigate_back_to_safe_directory attempts last_successful_dir (when
\* it differs from current_dir), the parent of current_dir, the home
\* directory and the working directory, in that order, and nothing after
\* the first that succeeds; when all fail the navigation state is as before
\* and the program goes on.
C3_RecoverTriesInOrder ==
    [][LET c == Candidates(app)
           oks == {i \in DOMAIN c : ReadOk(c[i])}
           n == IF oks = {} THEN Len(c)
                ELSE CHOOSE i \in oks : \A j \in oks : i <= j IN
        RecoverStep
        => /\ call'.log = [i \in 1..n |-> [target |-> c[i], ok |-> i \in oks]]
           /\ oks # {} => app'.current_dir = c[n]
           /\ oks = {} => NavState(app') = NavState(app) /\ ~panicked']_vars

\* C3 witness: a recovery found the parent unreadable, went to the home
\* directory and did not try the working directory
C3_Witness ==
    /\ call.op = "recover" /\ call.ok
    /\ Len(call.log) = 2
    /\ ~call.log[1].ok /\ call.log[2].ok
    /\ home # None /\ app.current_dir = home[1]
    /\ EnvCurrentDir # None

\* C3 witness of the last sentence: every candidate failed and the listing
\* on display is still the one of the directory that was left
C3_AllFailedWitness ==
    /\ call.op = "recover" /\ ~call.ok
    /\ Len(call.log) = 3
    /\ app.current_dir = Chain(2)
    /\ ~panicked

\* C4 has no formula: last_successful_dir and current_dir are assigned
\* together, so no reachable state has them differ.

(***************************************************************************)
(* Properties of the key handlers.                                         *)
(***************************************************************************)
\* C5: no command panics on an out-of-range selection index or a missing
\* parent, 'i' on the Process Manager and the Network Graph after a refresh
\* has shrunk the list included; such a command does nothing.
C5_Claimed_NoCommandPanics == ~panicked

(***************************************************************************)
(* Properties of NetworkHistory.                                           *)
(***************************************************************************)
NH == app.network_history

\* the step is an update() that read the counters call'.rx and call'.tx of
\* an interface
IngestStep == call'.op = "update" /\ call'.ingested

\* deque d was given value v at its back, its front evicted when over 60
Given(d, v) ==
    app'.network_history[d] = LastN(Append(NH[d], v), NETWORK_HISTORY_SIZE)

Kept(d) == app'.network_history[d] = NH[d]

\* C6: after any sequence of update() and clear(), each of the four deques
\* holds at most 60 values, and they are the most recent values pushed onto
\* it since the last clear(), in arrival order (the oldest are evicted).
C6_DequesHoldNewest60 ==
    \A d \in Deques :
        /\ Len(NH[d]) <= NETWORK_HISTORY_SIZE
        /\ NH[d] = LastN(ghost.pushed[d], NETWORK_HISTORY_SIZE)

\* C6 witness: a 61st rate sample has been pushed and the first one is gone
C6_Witness ==
    /\ Len(ghost.pushed.rx_rates) = NETWORK_HISTORY_SIZE + 1
    /\ Len(NH.rx_rates) = NETWORK_HISTORY_SIZE
    /\ NH.rx_rates[1] = ghost.pushed.rx_rates[2]
    /\ NH.rx_rates[1] # ghost.pushed.rx_rates[1]

\* C7: every value update() appends to rx_rates (tx_rates) is the received
\* (transmitted) total it read minus the total the preceding ingest read.
C7_RateIsDifference ==
    [][LET rx == call'.rx
           tx == call'.tx IN
        (IngestStep
         /\ Len(ghost'.pushed.rx_rates) + Len(ghost'.pushed.tx_rates)
                > Len(ghost.pushed.rx_rates) + Len(ghost.pushed.tx_rates))
        => /\ ghost.recent # <<>>
           /\ LET prev == ghost.recent[Len(ghost.recent)]
              IN  /\ rx >= prev.rx /\ tx >= prev.tx
                  /\ Given("rx_rates", rx - prev.rx)
                  /\ Given("tx_rates", tx - prev.tx)]_vars

\* C7 witness: an ingest has just appended a non-zero rate sample
C7_Witness ==
    /\ call.op = "update" /\ call.ingested
    /\ call.appended.rx_rates # <<>>
    /\ NH.rx_rates[Len(NH.rx_rates)] > 0
    /\ NH.rx_rates[Len(NH.rx_rates)] < call.rx

\* C8: an ingest whose rx or tx is below its last-seen value appends no
\* rate sample, sets the wraparound flag and sets the last-seen counters to
\* the values read; the program does not fail.
C8_DecreaseDropsSample ==
    [][LET rx == call'.rx
           tx == call'.tx IN
        (IngestStep
         /\ (rx < NH.last_rx_bytes \/ tx < NH.last_tx_bytes))
        => /\ Kept("rx_rates") /\ Kept("tx_rates")
           /\ app'.network_history.counter_wrapped
           /\ app'.network_history.last_rx_bytes = rx
           /\ app'.network_history.last_tx_bytes = tx
           /\ ~panicked']_vars

\* C8 witness: a history with a rate sample has just absorbed a decrease of
\* the transmitted counter alone
C8_Witness ==
    /\ call.op = "update" /\ call.ingested
    /\ NH.counter_wrapped
    /\ NH.rx_rates # <<>>
    /\ Len(ghost.recent) >= 2
    /\ ghost.recent[Len(ghost.recent)].tx < ghost.recent[Len(ghost.recent) - 1].tx
    /\ ghost.recent[Len(ghost.recent)].rx >= ghost.recent[Len(ghost.recent) - 1].rx

\* the last ingest before this step read a decreased counter
AfterDecrease ==
    LET n == Len(ghost.recent)
    IN  /\ n >= 2
        /\ \/ ghost.recent[n].rx < ghost.recent[n - 1].rx
           \/ ghost.recent[n].tx < ghost.recent[n - 1].tx

\* the last ingest before this step was the first one after a decrease and
\* read counters that are non-zero and not below those of the decrease
SecondAfterDecrease ==
    LET n == Len(ghost.recent)
    IN  /\ n >= 3
        /\ \/ ghost.recent[n - 1].rx < ghost.recent[n - 2].rx
           \/ ghost.recent[n - 1].tx < ghost.recent[n - 2].tx
        /\ ghost.recent[n].rx >= ghost.recent[n - 1].rx
        /\ ghost.recent[n].tx >= ghost.recent[n - 1].tx
        /\ ghost.recent[n].rx > 0 /\ ghost.recent[n].tx > 0

\* C9 as claimed: the ingest right after a decreasing ingest, its counters
\* non-zero and not below those recorded at the decrease, appends the rate
\* sample (rx - rx at the decrease, tx - tx at the decrease).
C9_Claimed_RateRightAfterDecrease ==
    [][LET rx == call'.rx
           tx == call'.tx IN
        (IngestStep /\ AfterDecrease
         /\ NH.last_rx_bytes > 0 /\ NH.last_tx_bytes > 0
         /\ rx >= NH.last_rx_bytes /\ tx >= NH.last_tx_bytes)
        => /\ Given("rx_rates", rx - NH.last_rx_bytes)
           /\ Given("tx_rates", tx - NH.last_tx_bytes)]_vars

\* C9 amended: the ingest right after a decreasing ingest appends no rate
\* sample (the wraparound flag is still set); it records its totals and
\* clears the flag.  The ingest after that one appends the rate sample
\* relative to the totals of the ingest that followed the decrease.
C9_RateResumesOneIngestLater ==
    [][LET rx == call'.rx
           tx == call'.tx IN
        /\ (IngestStep /\ AfterDecrease
            /\ rx >= NH.last_rx_bytes /\ tx >= NH.last_tx_bytes)
           => /\ Kept("rx_rates") /\ Kept("tx_rates")
              /\ Given("rx_history", rx) /\ Given("tx_history", tx)
              /\ ~app'.network_history.counter_wrapped
              /\ app'.network_history.last_rx_bytes = rx
              /\ app'.network_history.last_tx_bytes = tx
        /\ (IngestStep /\ SecondAfterDecrease
            /\ rx >= ghost.recent[Len(ghost.recent)].rx
            /\ tx >= ghost.recent[Len(ghost.recent)].tx)
           => /\ Given("rx_rates", rx - ghost.recent[Len(ghost.recent)].rx)
              /\ Given("tx_rates", tx - ghost.recent[Len(ghost.recent)].tx)]_vars

\* C9 witness: decrease, an ingest without a rate, then an ingest whose
\* rate sample is relative to the ingest before it
C9_Witness ==
    /\ call.op = "update" /\ call.ingested
    /\ Len(ghost.recent) = 4
    /\ ghost.recent[2].rx < ghost.recent[1].rx
    /\ ghost.recent[3].rx > ghost.recent[2].rx
    /\ ghost.recent[3].tx > 0
    /\ ghost.recent[4].rx > ghost.recent[3].rx
    /\ ghost.pushed.rx_rates = <<ghost.recent[4].rx - ghost.recent[3].rx>>
    /\ NH.rx_rates = ghost.pushed.rx_rates

\* C10 as claimed: every ingest appends the totals it read to rx_history
\* and tx_history, an ingest that detects a decrease included.
C10_Claimed_TotalsAlwaysAppended ==
    [][LET rx == call'.rx
           tx == call'.tx IN
        IngestStep
        => Given("rx_history", rx) /\ Given("tx_history", tx)]_vars

\* C10 amended: an ingest that detects no decrease appends the totals it
\* read to rx_history and tx_history; an ingest that detects a decrease
\* appends nothing, neither totals nor rate sample.
C10_TotalsAppendedUnlessDecrease ==
    [][LET rx == call'.rx
           tx == call'.tx IN
        IngestStep
        => IF rx < NH.last_rx_bytes \/ tx < NH.last_tx_bytes
           THEN \A d \in Deques : Kept(d)
           ELSE Given("rx_history", rx) /\ Given("tx_history", tx)]_vars

\* C10 witness: totals were appended by an ingest that left the counters
\* where they were, after an ingest that was dropped for a decrease
C10_Witness ==
    /\ call.op = "update" /\ call.ingested
    /\ Len(ghost.recent) >= 3
    /\ ghost.recent[Len(ghost.recent)] = ghost.recent[Len(ghost.recent) - 1]
    /\ ghost.recent[Len(ghost.recent) - 1].rx
           < ghost.recent[Len(ghost.recent) - 2].rx
    /\ Len(NH.rx_history) = 2
    /\ NH.rx_history[2] = call.rx

(***************************************************************************)
(* Properties of the tracked interface.                                    *)
(***************************************************************************)
HistoryIsNew(nh) ==
    /\ \A d \in Deques : nh[d] = <<>>
    /\ nh.last_rx_bytes = 0
    /\ nh.last_tx_bytes = 0

HistoryKept ==
    /\ \A d \in Deques : Kept(d)
    /\ app'.network_history.last_rx_bytes = NH.last_rx_bytes
    /\ app'.network_history.last_tx_bytes = NH.last_tx_bytes

\* the name under the network cursor of an App, "" when the cursor is off
\* the list
SelectedName(a) ==
    IF a.selected_network < Len(a.cached_networks)
    THEN a.cached_networks[a.selected_network + 1].name ELSE ""

\* C11: whenever the tracked interface changes from one interface to
\* another, by a cursor key or because the provider's list changed, the four
\* deques are empty and the last-seen counters are zero before the first
\* sample of the new interface is ingested.
C11_Claimed_NoCrossInterfaceSamples ==
    [][NH.current_interface # ""
       /\ app'.network_history.current_interface # NH.current_interface
       => HistoryIsNew(NH)]_vars

\* C12: a cursor key on the Network Graph panel that selects the interface
\* already tracked leaves the deques and the last-seen counters as they
\* were.
C12_Claimed_SameInterfaceKeepsHistory ==
    [][call'.op = "key" /\ call'.key \in {"Up", "Down"}
       /\ app.selected_panel = "NetworkGraph"
       /\ SelectedName(app') = NH.current_interface
       => HistoryKept]_vars

(***************************************************************************)
(* Properties of the two timers.                                           *)
(***************************************************************************)
ManualStep == call'.op = "key" /\ call'.key = "r"
PeriodicStep == call'.op = "tick"

\* C13: a manual refresh is served if and only if no manual refresh was
\* served in the 500 ms before it; of two manual refreshes 100 ms apart, the
\* first at such a moment, the first is served and the second is dropped.
C13_Claimed_ServedUnlessServedRecently ==
    [][ManualStep
       => (call'.refreshed
           <=> \/ ghost.manual_at = None
               \/ now - ghost.manual_at[1] >= MANUAL_REFRESH_COOLDOWN)]_vars

\* C13 amended: a manual refresh is served if and only if at least 500 ms
\* have elapsed since the last served manual refresh or, when none was
\* served yet, since the program started.
C13_ServedAfterCooldownOrStartup ==
    [][ManualStep
       => (call'.refreshed
           <=> now - (IF ghost.manual_at = None THEN 0
                      ELSE ghost.manual_at[1]) >= MANUAL_REFRESH_COOLDOWN)]_vars

\* C13 witness: a manual refresh has just been dropped, one poll timeout
\* (100 ms) after a manual refresh that was served
C13_Witness ==
    /\ call.op = "key" /\ call.key = "r" /\ ~call.refreshed
    /\ ghost.manual_at = Some(now - POLL_TIMEOUT)
    /\ app.last_manual_refresh = now - POLL_TIMEOUT

\* C14: a served manual refresh does what a periodic refresh does: it
\* queries the provider, rebuilds the process cache and the network cache
\* from what the provider reports and feeds the network history with it.
C14_Claimed_ManualRefreshRunsPipeline ==
    [][ManualStep /\ call'.refreshed
       => /\ app'.cached_processes
                 = SortByCpu(Take(sys_processes', MAX_PROCESSES))
          /\ app'.cached_networks = Take(networks', MAX_NETWORKS)
          /\ app'.network_history
                 = NetworkHistoryUpdate(NH, networks', SelectedName(app')).nh]_vars

\* C15: update() re-queries the provider, rebuilds the two caches, feeds
\* the history once and resets the periodic timer if and only if at least
\* 2 s have elapsed since the last periodic refresh (the initial load of
\* App::new being the first); otherwise it changes nothing.
C15_TickRefreshesEveryInterval ==
    [][PeriodicStep
       => /\ call'.refreshed <=> now - ghost.periodic_at >= UPDATE_INTERVAL
          /\ call'.refreshed
             => /\ app'.cached_processes
                       = SortByCpu(Take(sys_processes', MAX_PROCESSES))
                /\ app'.cached_networks = Take(networks', MAX_NETWORKS)
                /\ app'.network_history
                       = NetworkHistoryUpdate(NH, networks',
                                              SelectedName(app')).nh
                /\ Len(app'.network_history.rx_history)
                       = Len(NH.rx_history) + 1
                /\ app'.last_update = now
          /\ ~call'.refreshed
             => /\ app' = app
                /\ sys_processes' = sys_processes
                /\ networks' = networks]_vars

\* C15 witness: the second periodic refresh, 2 s or more after the first
C15_Witness ==
    /\ call.op = "tick" /\ call.refreshed
    /\ Len(NH.rx_history) = 2
    /\ app.last_update = now
    /\ now >= 2 * UPDATE_INTERVAL

\* C16: a manual refresh that arrives less than 500 ms after the last
\* served one is dropped and has no effect: the provider is not queried,
\* the App is as before, its manual timer included, and nothing is left
\* pending.
C16_DroppedRefreshHasNoEffect ==
    [][ManualStep /\ ghost.manual_at # None
       /\ now - ghost.manual_at[1] < MANUAL_REFRESH_COOLDOWN
       => /\ ~call'.refreshed
          /\ app' = app
          /\ app'.last_manual_refresh = ghost.manual_at[1]
          /\ sys_processes' = sys_processes
          /\ networks' = networks]_vars

\* C16 witness: a manual refresh was dropped 400 ms after the last served
\* one, before the first periodic refresh
C16_Witness ==
    /\ call.op = "key" /\ call.key = "r" /\ ~call.refreshed
    /\ ghost.manual_at = Some(now - 4 * POLL_TIMEOUT)
    /\ app.last_manual_refresh = now - 4 * POLL_TIMEOUT
    /\ app.last_update = 0

(***************************************************************************)
(* Properties of the directory history.                                    *)
(***************************************************************************)
\* no path occurs twice in the sequence
Distinct(seq) == \A i, j \in DOMAIN seq : seq[i] = seq[j] => i = j

\* the step ended with a successful navigation
Arrived == call'.log # <<>> /\ call'.log[Len(call'.log)].ok

\* C17: directory_history never holds more than 20 paths nor the same path
\* twice, and a successful navigation to a path it does not hold, when it
\* holds 20, removes the oldest path (index 0) and appends the new one
C17_HistoryBoundedDistinctFifo ==
    /\ [](/\ Len(app.directory_history) <= MAX_DIRECTORY_HISTORY
          /\ Distinct(app.directory_history))
    /\ [][(/\ Arrived
            /\ Len(app.directory_history) = MAX_DIRECTORY_HISTORY
            /\ ~Contains(app.directory_history, app'.current_dir))
           => app'.directory_history
                  = Append(Tail(app.directory_history), app'.current_dir)]_vars

\* C17 witness: Enter took the program into a 21st distinct directory and
\* the start directory, the oldest entry, has left the full history
C17_Witness ==
    /\ call.key = "Enter"
    /\ call.log # <<>>
    /\ call.log[1].ok
    /\ Len(app.directory_history) = MAX_DIRECTORY_HISTORY
    /\ ~Contains(app.directory_history, Root)
    /\ app.directory_history[MAX_DIRECTORY_HISTORY] = call.log[1].target
    /\ app.directory_history[1] \in {HomeDir, Chain(1)}

(***************************************************************************)
(* Properties of the file explorer's keys.                                 *)
(***************************************************************************)
\* the step is Enter on a row of the file explorer's listing
EnterStep ==
    /\ call'.op = "key"
    /\ call'.key = "Enter"
    /\ app.selected_panel = "FileExplorer"
    /\ app.selected_file < Len(app.dir_entries)

\* the row under the cursor, before the step
SelectedItem == app.dir_entries[app.selected_file + 1]
SelectedPath == app.dir_entry_paths[app.selected_file + 1]

\* the step did what recover() does on the App before it
Recovered ==
    LET r == navigate_back_to_safe_directory(app)
    IN  app' = r.app /\ call'.log = r.log

\* the step tried target first and, when that was rejected, did what
\* recover() does
NavigatedOrRecovered(target) ==
    /\ call'.log # <<>>
    /\ call'.log[1].target = target
    /\ IF call'.log[1].ok
       THEN Len(call'.log) = 1 /\ app'.current_dir = target
       ELSE LET r == navigate_back_to_safe_directory(app)
            IN  app' = r.app /\ Tail(call'.log) = r.log

\* C18 as claimed: Enter on the error sentinel recovers; Enter on ".." or on
\* a directory row navigates to the row's stored path and recovers when
\* that navigation is rejected
C18_Claimed_ActivateNavigatesOrRecovers ==
    [][EnterStep =>
         /\ StartsWith(SelectedItem, ErrorPrefix) => Recovered
         /\ (SelectedItem = DotDot \/ StartsWith(SelectedItem, DirIcon))
                => NavigatedOrRecovered(SelectedPath)]_vars

\* C19: Enter on a file row changes nothing of the navigation state, and
\* no navigation is attempted
C19_ActivateFileIsNoOp ==
    [][(EnterStep /\ StartsWith(SelectedItem, FileIcon))
          => app' = app /\ call'.log = <<>>]_vars

\* C19 witness: Enter was pressed on a file row of a directory below the
\* root, after at least one navigation
C19_Witness ==
    /\ call.key = "Enter"
    /\ call.log = <<>>
    /\ app.selected_panel = "FileExplorer"
    /\ app.selected_file < Len(app.dir_entries)
    /\ StartsWith(app.dir_entries[app.selected_file + 1], FileIcon)
    /\ Len(app.directory_history) > 1

\* the step is 'b' with the file explorer focused
BackStep ==
    /\ call'.op = "key"
    /\ call'.key = "b"
    /\ app.selected_panel = "FileExplorer"

\* the 1-based position of current_dir in directory_history, 0 if absent
Located ==
    IF Contains(app.directory_history, app.current_dir)
    THEN CHOOSE i \in DOMAIN app.directory_history :
             /\ app.directory_history[i] = app.current_dir
             /\ \A j \in 1..(i - 1) : app.directory_history[j] # app.current_dir
    ELSE 0

\* C20: 'b' finds current_dir in the history; when it is not the first
\* entry the program navigates to the entry before it, and recovers when
\* that navigation is rejected; when it is the first entry nothing changes
C20_GoBackToPrecedingEntry ==
    [][BackStep =>
         /\ Located >= 1
         /\ IF Located > 1
            THEN NavigatedOrRecovered(app.directory_history[Located - 1])
            ELSE app' = app /\ call'.log = <<>>]_vars

\* C20 witness: 'b' took the program back to an earlier entry of a history
\* of three or more directories
C20_Witness ==
    /\ call.key = "b"
    /\ call.log # <<>>
    /\ call.log[1].ok
    /\ app.current_dir = call.log[1].target
    /\ Len(app.directory_history) >= 3
    /\ app.directory_history[Len(app.directory_history)] # app.current_dir

\* C20 witness of the rejected case: the entry before current_dir could not
\* be read and the program recovered to another directory
C20_RejectedWitness ==
    /\ call.key = "b"
    /\ Len(call.log) > 1
    /\ ~call.log[1].ok
    /\ call.log[Len(call.log)].ok

\* the step is Backspace with the file explorer focused
UpStep ==
    /\ call'.op = "key"
    /\ call'.key = "Backspace"
    /\ app.selected_panel = "FileExplorer"

\* C21 as claimed: Backspace navigates to the parent of current_dir, the root
\* being its own parent, and recovers when that navigation is rejected
C21_Claimed_GoUpNavigatesToParent ==
    [][UpStep =>
         NavigatedOrRecovered(UnwrapOr(PathParent(app.current_dir),
                                       app.current_dir))]_vars

(***************************************************************************)
(* Properties of read_directory.                                           *)
(***************************************************************************)
\* the label the entry named name gets in the listing of path
LabelOf(path, name) ==
    (IF IsDir(Join(path, name)) THEN DirIcon ELSE FileIcon)
        \o <<32>> \o truncate_string(name, FILE_NAME_MAX_LEN)

\* row i of the listing is a directory row
IsDirRow(listing, i) == StartsWith(listing.items[i], DirIcon)

\* C22: the listing of a readable directory is the ".." row with the parent
\* of the listed path (the path itself at the root), then the directories
\* in lexicographic order of their labels, then the files in lexicographic
\* order of theirs; every entry enumerated has one row, and every row pairs
\* the label of an entry with the path of that entry
C22_ListingIsParentDirsFiles ==
    call.op = "list" =>
        LET path == call.target
            given == call.given
            items == call.listing.items
            paths == call.listing.paths
            rows == 2..Len(items)
        IN  /\ Len(items) = Len(given) + 1
            /\ Len(paths) = Len(items)
            /\ items[1] = DotDot
            /\ paths[1] = (IF path = Root THEN Root ELSE PathParent(path)[1])
            /\ \A i \in rows : \E k \in DOMAIN given :
                   /\ paths[i] = Join(path, given[k].name)
                   /\ items[i] = LabelOf(path, given[k].name)
            /\ \A k \in DOMAIN given : \E i \in rows :
                   paths[i] = Join(path, given[k].name)
            /\ \A i, j \in rows :
                   i < j =>
                      /\ IsDirRow(call.listing, j) => IsDirRow(call.listing, i)
                      /\ IsDirRow(call.listing, i) = IsDirRow(call.listing, j)
                            => StrCmp(items[i], items[j]) <= 0

\* C22 witness: an enumeration that yields a file before two directories
\* in descending order of name was listed, directories first
C22_Witness ==
    /\ call.op = "list"
    /\ call.target = Root
    /\ Len(call.given) = 3
    /\ call.given[1].name = NameZ
    /\ call.given[2].name = NameN
    /\ call.given[3].name = NameHome
    /\ call.listing.paths = <<Root, HomeDir, Chain(1), Join(Root, NameZ)>>

(***************************************************************************)
(* Properties of the stored listing.                                       *)
(***************************************************************************)
\* the stored listing is a successful one
StoredListingIsGood(a) == a.dir_entries # <<>> /\ a.dir_entries[1] = DotDot

\* C23 as claimed: in every reachable state, the initial one included, the
\* stored listing is a successful listing that starts with ".."
C23_Claimed_StoredListingNeverError == StoredListingIsGood(app)

\* C23: the listing stored at startup is the error sentinel exactly when
\* the start directory cannot be read; afterwards a successful listing is
\* only ever replaced by a successful one, and whenever the stored listing
\* changes the new one is successful
C23_OnlyStartupStoresError ==
    /\ StoredListingIsGood(app) <=> ReadOk(cwd)
    /\ [][/\ StoredListingIsGood(app) => StoredListingIsGood(app')
          /\ app'.dir_entries # app.dir_entries => StoredListingIsGood(app')]_vars

\* C23 witness: Enter asked for a directory that could not be read, the
\* navigation was rejected and the stored listing is a successful one
C23_Witness ==
    /\ call.key = "Enter"
    /\ call.log # <<>>
    /\ ~call.log[1].ok
    /\ call.log[1].target \in {Chain(1), HomeDir}
    /\ StoredListingIsGood(app)

(***************************************************************************)
(* Properties of the caches.                                               *)
(***************************************************************************)
\* no process of higher cpu_usage comes after one of lower cpu_usage
Descending(cp) ==
    \A i, j \in DOMAIN cp :
        (i < j /\ cp[i].cpu_usage # NaN /\ cp[j].cpu_usage # NaN)
            => cp[i].cpu_usage >= cp[j].cpu_usage

\* partial_cmp gives no order between the two, or it gives Equal
TiedOrIncomparable(p, q) ==
    p.cpu_usage = NaN \/ q.cpu_usage = NaN \/ p.cpu_usage = q.cpu_usage

\* processes the comparison does not tell apart are in provider order, which
\* is the order of their pids in every snapshot of CacheProcs
TiesInProviderOrder(cp) ==
    \A i, j \in DOMAIN cp :
        (i < j /\ TiedOrIncomparable(cp[i], cp[j])) => cp[i].pid < cp[j].pid

HasNaN(procs) == \E i \in DOMAIN procs : procs[i].cpu_usage = NaN

\* C24 as claimed: the cache is in descending order of cpu_usage, and
\* processes of identical or incomparable cpu_usage keep their provider
\* order
C24_Claimed_DescendingAndStable ==
    /\ Descending(app.cached_processes)
    /\ TiesInProviderOrder(app.cached_processes)

\* C24: when no cpu_usage of the snapshot is NaN the cache is in descending
\* order of cpu_usage and processes of identical cpu_usage keep their
\* provider order
C24_DescendingAndStableWithoutNaN ==
    ~HasNaN(sys_processes) =>
        /\ Descending(app.cached_processes)
        /\ TiesInProviderOrder(app.cached_processes)

\* C24 witness: a refresh read cpu_usage 1, 2, 2 and put the two processes
\* of cpu_usage 2 first, in provider order
C24_Witness ==
    /\ call.op = "tick"
    /\ call.refreshed
    /\ sys_processes = Listed(<<1, 2, 2>>)
    /\ app.cached_processes
          = <<[pid |-> 2, cpu_usage |-> 2], [pid |-> 3, cpu_usage |-> 2],
              [pid |-> 1, cpu_usage |-> 1]>>

\* the pids of the processes of a sequence
Pids(procs) == {procs[i].pid : i \in DOMAIN procs}

\* C25: the process cache holds the first min(n, 1000) processes of the
\* snapshot last queried and nothing else, the network cache is the first
\* min(n, 100) interfaces of that snapshot in provider order; so neither
\* exceeds its cap, nothing of an earlier snapshot survives and an empty
\* snapshot gives empty caches
C25_CachesAreCappedSnapshots ==
    /\ Len(app.cached_processes) <= MAX_PROCESSES
    /\ Len(app.cached_processes) = Min(Len(sys_processes), MAX_PROCESSES)
    /\ Pids(app.cached_processes)
          = {sys_processes[i].pid :
               i \in 1..Min(Len(sys_processes), MAX_PROCESSES)}
    /\ Len(app.cached_networks) <= MAX_NETWORKS
    /\ Len(app.cached_networks) = Min(Len(networks), MAX_NETWORKS)
    /\ \A i \in DOMAIN app.cached_networks :
          app.cached_networks[i] = networks[i]

\* C25 witness: a refresh read one process more than MAX_PROCESSES and one
\* interface more than MAX_NETWORKS, and both caches are full
C25_Witness ==
    /\ call.op = "tick"
    /\ call.refreshed
    /\ Len(sys_processes) = MAX_PROCESSES + 1
    /\ Len(networks) = MAX_NETWORKS + 1
    /\ Len(app.cached_processes) = MAX_PROCESSES
    /\ Len(app.cached_networks) = MAX_NETWORKS

\* C25 witness of the empty snapshot: a refresh that read nothing emptied
\* caches that were full
C25_EmptiedWitness ==
    /\ call.op = "tick"
    /\ call.refreshed
    /\ ghost.periodic_at > UPDATE_INTERVAL
    /\ sys_processes = <<>>
    /\ networks = <<>>
    /\ app.cached_processes = <<>>
    /\ app.cached_networks = <<>>

(***************************************************************************)
(* Properties of update().                                                 *)
(***************************************************************************)
\* the selection, panel and navigation state of an App
FocusState(a) ==
    <<a.selected_panel, a.selected_process, a.selected_file,
      a.selected_network, a.current_dir, a.dir_entries, a.dir_entry_paths,
      a.directory_history, a.last_successful_dir>>

\* C26: no update(), refreshing or not, changes the focused panel, a
\* cursor, the current directory, the stored listing, the directory
\* history or the last successful directory
C26_TickKeepsFocusState ==
    [][call'.op = "tick" => FocusState(app') = FocusState(app)]_vars

\* C26 witness: an update() refreshed while the process cursor was on the
\* third row, and the cursor now points past the end of the rebuilt cache
C26_Witness ==
    /\ call.op = "tick"
    /\ call.refreshed
    /\ app.selected_panel = "ProcessManager"
    /\ app.selected_process = 2
    /\ Len(app.cached_processes) < 2

(***************************************************************************)
(* Properties of the keys.                                                 *)
(***************************************************************************)
\* the step is a call of handle_key_event
KeyStep == call'.op = "key"

\* Up or Down (or their aliases) with the Network Graph panel focused
InterfaceSwitch ==
    /\ call'.key \in {"Up", "k", "Down", "j"}
    /\ app.selected_panel = "NetworkGraph"

\* C27: after App::new the network history is empty and the caches hold
\* what its own refresh_cached_data put into the empty vectors; from then
\* on no key changes cached_processes or cached_networks, and no key
\* changes a field of the network history, except that Up and Down on the
\* Network Graph panel may clear it
C27_KeysLeaveCachesAndHistory ==
    /\ app.network_history = NetworkHistoryNew
    /\ app.cached_processes = SortByCpu(Take(sys_processes, MAX_PROCESSES))
    /\ app.cached_networks = Take(networks, MAX_NETWORKS)
    /\ [][KeyStep =>
            /\ app'.cached_processes = app.cached_processes
            /\ app'.cached_networks = app.cached_networks
            /\ \/ app'.network_history = app.network_history
               \/ /\ InterfaceSwitch
                  /\ app'.network_history
                        = NetworkHistoryClear(app.network_history)]_vars

\* the caches and the history hold data
CachesAndHistoryFilled ==
    /\ app.cached_processes # <<>>
    /\ app.cached_networks # <<>>
    /\ app.network_history.rx_history # <<>>

\* C27 witness: 'b' took the file explorer back to an earlier directory
\* while the caches and the history held data
C27_Witness ==
    /\ call.key = "b"
    /\ call.log # <<>>
    /\ CachesAndHistoryFilled

\* C27 witness of the exception: Down on the Network Graph panel cleared a
\* history that held data
C27_ClearedWitness ==
    /\ call.key = "Down"
    /\ app.selected_panel = "NetworkGraph"
    /\ app.network_history.current_interface # ""
    /\ app.network_history.rx_history = <<>>
    /\ app.cached_networks # <<>>

(***************************************************************************)
(* Properties of the main loop.                                            *)
(***************************************************************************)
\* run has returned or the process has been ended by a panic
Ended == panicked \/ call.op \in {"exit", "draw_err", "read_err"}

\* should_quit is false after App::new and is set only by handle_key_event
\* with 'q' or Esc
QuitFlagOnlyByQuitKey ==
    /\ ~app.should_quit
    /\ [][app'.should_quit /\ ~app.should_quit
            => call'.op = "key" /\ call'.key \in {"q", "Esc"}]_vars

\* C28 as claimed: should_quit is false initially and becomes true only
\* while 'q' or Esc is handled, and the program ends only when should_quit
\* is true
C28_Claimed_OnlyQuitEnds == QuitFlagOnlyByQuitKey /\ [](Ended => app.should_quit)

\* the part of C28 that holds: nothing but a quit key sets should_quit, and
\* the loop is left through its break only when should_quit is true
C28_BreakOnlyAfterQuitKey ==
    QuitFlagOnlyByQuitKey /\ [](call.op = "exit" => app.should_quit)

\* the program was ended by a panic of a key handler, should_quit not set
C28_PanicWitness == panicked /\ call.op = "key" /\ ~app.should_quit

\* run returned the error of terminal.draw, should_quit not set
C28_DrawErrorWitness == call.op = "draw_err" /\ ~app.should_quit

\* the loop was left through its break
C28_QuitWitness == call.op = "exit" /\ app.should_quit

\* the statements that deal with the event of a turn
EventOps == {"key", "idle", "read_err"}

\* C29 as claimed: in every turn of the loop the command is handled after
\* update() and the frame is drawn after the command
C29_Claimed_UpdateCommandRender ==
    [][/\ call'.op \in EventOps => call.op = "tick"
       /\ call'.op \in {"draw", "draw_err"} => call.op \in {"key", "idle"}]_vars

\* C29: every turn of the loop runs, one after the other, update() once,
\* then terminal.draw once, then the handling of at most one key, then the
\* test of should_quit; the frame of a turn is drawn before its key is
\* handled
C29_UpdateRenderCommand ==
    [][/\ call'.op = "tick" => call.op \in {"new", "loop"}
       /\ call'.op \in {"draw", "draw_err"} => call.op = "tick" /\ app' = app
       /\ call'.op \in EventOps => call.op = "draw"
       /\ call'.op \in {"loop", "exit"} => call.op \in {"key", "idle"}]_vars

\* C29 witness: '?' was handled in a turn whose frame had been drawn
\* before, without the help screen
C29_Witness == call.op = "key" /\ call.key = "?" /\ app.show_help

\* terminal.draw has read app: draw leaves app as it is
Rendered == call.op = "draw"

\* the elements of a sequence
Elements(s) == {s[i] : i \in DOMAIN s}

\* the history is empty or its last-seen counters are those of an interface
\* of nets
IngestedAtMost(nh, nets) ==
    \/ nh.rx_history = <<>>
    \/ \E i \in DOMAIN nets :
          /\ nets[i].name = nh.current_interface
          /\ nets[i].total_received = nh.last_rx_bytes
          /\ nets[i].total_transmitted = nh.last_tx_bytes

\* C30: whenever a frame is drawn, cached_processes holds every process of
\* the snapshot last queried, sorted by descending cpu_usage,
\* cached_networks is the interface list of that snapshot, and the network
\* history is empty or has ingested that snapshot last
C30_RenderSeesCompleteSnapshot ==
    Rendered =>
        /\ Len(app.cached_processes) = Len(sys_processes)
        /\ Elements(app.cached_processes) = Elements(sys_processes)
        /\ Descending(app.cached_processes)
        /\ app.cached_networks = networks
        /\ IngestedAtMost(app.network_history, app.cached_networks)

\* C30 witness: the frame drawn after the second refreshing update(), which
\* replaced a cache of one process by two processes in another order than
\* the provider's and fed the history from the new counters
C30_Witness ==
    /\ Rendered
    /\ now - app.last_update = 0
    /\ app.last_update >= 2 * UPDATE_INTERVAL
    /\ Len(app.cached_processes) = 2
    /\ app.cached_processes # sys_processes
    /\ Len(app.network_history.rx_history) = 2

(***************************************************************************)
(* Invariants of the navigation state.                                     *)
(***************************************************************************)
\* the first directory a recovery from a has to try when last_successful_dir
\* is current_dir: an Option
FirstCandidate(a) ==
    IF PathParent(a.current_dir) # None THEN PathParent(a.current_dir)
    ELSE IF home # None THEN home
    ELSE EnvCurrentDir

\* C31 as claimed: last_successful_dir is current_dir in every state, and
\* every recovery tries the parent of current_dir first
C31_Claimed_RecoveryStartsWithParent ==
    /\ [](app.last_successful_dir = app.current_dir)
    /\ [][RecoverStep =>
            /\ PathParent(app.current_dir) # None
            /\ call'.log # <<>>
            /\ call'.log[1].target = PathParent(app.current_dir)[1]]_vars

\* C31: last_successful_dir is current_dir in every state, so a recovery
\* never tries last_successful_dir: it tries the parent of current_dir
\* first and, in the root directory, which has no parent, $HOME or else the
\* working directory
C31_SafeDirIsCurrentDir ==
    /\ [](app.last_successful_dir = app.current_dir)
    /\ [][RecoverStep =>
            LET first == FirstCandidate(app)
            IN  IF first = None THEN call'.log = <<>>
                ELSE call'.log # <<>> /\ call'.log[1].target = first[1]]_vars

\* C31 witness: a recovery away from the start directory found the parent
\* unreadable and went on to the next candidate
C31_Witness ==
    /\ call.op = "recover"
    /\ Len(call.log) >= 2
    /\ ~call.log[1].ok
    /\ Len(app.directory_history) >= 2
    /\ app.last_successful_dir = app.current_dir

\* a recovery in the root directory tried $HOME first
C31_RootWitness ==
    /\ call.op = "recover"
    /\ call.log # <<>>
    /\ home # None
    /\ call.log[1].target = home[1]

\* a key whose navigation was rejected, so that the recovery ran
RejectedKeyStep ==
    /\ call'.op = "key"
    /\ call'.log # <<>>
    /\ ~call'.log[1].ok

\* C32 as claimed: when the navigation of a command is rejected while
\* current_dir can still be read, the recovery leaves current_dir as it was
C32_Claimed_RejectedNavigationStaysPut ==
    [][RejectedKeyStep /\ ReadOk(app.current_dir)
          => app'.current_dir = app.current_dir]_vars

\* Enter on an unreadable child of a readable directory has moved the user to
\* the parent of that directory
C32_MovedToParentWitness ==
    /\ call.op = "key" /\ call.key = "Enter"
    /\ Len(call.log) = 2
    /\ ~call.log[1].ok /\ call.log[2].ok
    /\ PathParent(call.log[1].target) # None
    /\ ReadOk(PathParent(call.log[1].target)[1])
    /\ app.current_dir # PathParent(call.log[1].target)[1]

\* C33: current_dir is an entry of directory_history in every state, also
\* after the oldest entry was evicted, so that 'b' finds current_dir at the
\* position it goes back from
C33_CurrentDirInHistory ==
    /\ [](Contains(app.directory_history, app.current_dir))
    /\ [][BackStep =>
            app.directory_history[HistoryPosition(app) + 1]
                = app.current_dir]_vars

\* C33 witness: 'b' went back from a directory found in a full history from
\* which the root directory had been evicted
C33_Witness ==
    /\ call.op = "key" /\ call.key = "b"
    /\ call.log # <<>>
    /\ Len(app.directory_history) = MAX_DIRECTORY_HISTORY
    /\ ~Contains(app.directory_history, Root)
    /\ Contains(app.directory_history, app.current_dir)

\* C34: in every state the stored listing has at least one row, as many
\* paths as labels, and the file cursor is on one of its rows
C34_FileCursorInListing ==
    /\ Len(app.dir_entries) > 0
    /\ Len(app.dir_entries) = Len(app.dir_entry_paths)
    /\ app.selected_file < Len(app.dir_entries)

\* C34 witness: with the cursor on the last of several rows a navigation
\* was rejected and the recovery stored another listing
C34_Witness ==
    /\ call.op = "key"
    /\ Len(call.log) >= 2
    /\ ~call.log[1].ok
    /\ call.log[Len(call.log)].ok
    /\ app.selected_file = 0
    /\ Len(app.dir_entries) >= 2

\* End has put the cursor on the last row of a listing of several rows
C34_EndWitness ==
    /\ call.op = "key" /\ call.key = "End"
    /\ app.selected_file = Len(app.dir_entries) - 1
    /\ app.selected_file >= 2

(***************************************************************************)
(* Invariants of the list cursors.                                         *)
(***************************************************************************)
\* C35 as claimed: the process cursor and the interface cursor are inside
\* their caches whenever these are not empty
C35_Claimed_CursorsInsideLists ==
    /\ app.cached_processes # <<>>
          => app.selected_process < Len(app.cached_processes)
    /\ app.cached_networks # <<>>
          => app.selected_network < Len(app.cached_networks)

\* a refreshing update() has left the process cursor behind the end of a
\* cache that is not empty
C35_StaleProcessCursor ==
    /\ call.op = "tick" /\ call.refreshed
    /\ app.cached_processes # <<>>
    /\ app.selected_process >= Len(app.cached_processes)

\* a refreshing update() has left the interface cursor behind the end of a
\* cache that is not empty
C35_StaleNetworkCursor ==
    /\ call.op = "tick" /\ call.refreshed
    /\ app.cached_networks # <<>>
    /\ app.selected_network >= Len(app.cached_networks)

(***************************************************************************)
(* Invariants of NetworkHistory.                                           *)
(***************************************************************************)
\* C36: in every state the two rate deques have the same length, the two
\* deques of totals have the same length, and there are no more rate
\* samples than totals
C36_RatesPairedWithTotals ==
    /\ Len(NH.rx_rates) = Len(NH.tx_rates)
    /\ Len(NH.rx_history) = Len(NH.tx_history)
    /\ Len(NH.rx_rates) <= Len(NH.rx_history)

\* C36 witness: an ingest has pushed a rate sample and its totals, after
\* ingests that pushed totals only
C36_Witness ==
    /\ call.op = "update" /\ call.ingested
    /\ call.appended.rx_rates # <<>>
    /\ call.appended.rx_history # <<>>
    /\ Len(NH.rx_rates) > 0
    /\ Len(NH.rx_rates) < Len(NH.rx_history)

\* the ingests since the start or the last clear() are all on record in
\* ghost.recent, and no counter went down from one to the next
OnlyNonDecreasingIngests ==
    /\ ghost.recent # <<>>
    /\ Len(ghost.recent) < RecentWindow
    /\ \A i \in 1..(Len(ghost.recent) - 1) :
          /\ ghost.recent[i + 1].rx >= ghost.recent[i].rx
          /\ ghost.recent[i + 1].tx >= ghost.recent[i].tx

\* C37 as claimed: n ingests with non-decreasing counters after the start or
\* a clear() leave min(n - 1, 60) samples in each rate deque
C37_Claimed_AllButFirstIngestRated ==
    OnlyNonDecreasingIngests =>
        /\ Len(NH.rx_rates) = Min(Len(ghost.recent) - 1, NETWORK_HISTORY_SIZE)
        /\ Len(NH.tx_rates) = Min(Len(ghost.recent) - 1, NETWORK_HISTORY_SIZE)

\* the ingests after the first whose predecessor read two non-zero counters
AfterNonZeroIngest ==
    {i \in 2..Len(ghost.recent) :
        ghost.recent[i - 1].rx > 0 /\ ghost.recent[i - 1].tx > 0}

\* what holds instead: an ingest contributes a rate sample when the ingest
\* before it read two non-zero counters
C37_RatedAfterNonZeroIngest ==
    OnlyNonDecreasingIngests =>
        /\ Len(NH.rx_rates) = Cardinality(AfterNonZeroIngest)
        /\ Len(NH.tx_rates) = Cardinality(AfterNonZeroIngest)

\* three ingests of an interface that receives and never transmits have
\* left the rate deques empty
C37_ZeroCounterWitness ==
    /\ OnlyNonDecreasingIngests
    /\ Len(ghost.recent) = 3
    /\ \A i \in 1..3 : ghost.recent[i].tx = 0 /\ ghost.recent[i].rx > 0
    /\ ghost.recent[3].rx > ghost.recent[1].rx
    /\ NH.rx_rates = <<>>
    /\ Len(NH.rx_history) = 3

(***************************************************************************)
(* Properties of the overlays.                                             *)
(***************************************************************************)
\* C38: while the help screen is shown Esc, '?' and 'h' do nothing but
\* close it and every other key changes nothing at all; 'q' and Esc on an
\* open modal, the help screen not shown, do nothing but close the modal
C38_OverlaysSwallowKeys ==
    [][KeyStep =>
         /\ app.show_help =>
               /\ app' = IF call'.key \in {"Esc", "?", "h"}
                         THEN [app EXCEPT !.show_help = FALSE] ELSE app
               /\ UNCHANGED <<sys_processes, networks, panicked>>
         /\ (~app.show_help /\ app.show_modal /\ call'.key \in {"q", "Esc"}) =>
               /\ app' = [app EXCEPT !.show_modal = FALSE]
               /\ ~app'.should_quit]_vars

\* C38 witness: 'q' was pressed on the help screen and the program goes on
C38_Witness ==
    /\ call.op = "key" /\ call.key = "q"
    /\ app.show_help
    /\ ~app.should_quit

\* C38 witness of the modal: 'q' has closed the process modal and the
\* program goes on
C38_ModalWitness ==
    /\ call.op = "key" /\ call.key = "q"
    /\ app.modal_type = "ProcessDetails"
    /\ ~app.show_modal
    /\ ~app.should_quit

(***************************************************************************)
(* Properties of the panel focus.                                          *)
(***************************************************************************)
\* the cycle of the panels
PanelAfter(panel) ==
    CASE panel = "SystemMonitor" -> "SystemStatus"
      [] panel = "SystemStatus" -> "ProcessManager"
      [] panel = "ProcessManager" -> "FileExplorer"
      [] panel = "FileExplorer" -> "NetworkGraph"
      [] panel = "NetworkGraph" -> "SystemMonitor"

PanelBefore(panel) ==
    CASE panel = "SystemMonitor" -> "NetworkGraph"
      [] panel = "SystemStatus" -> "SystemMonitor"
      [] panel = "ProcessManager" -> "SystemStatus"
      [] panel = "FileExplorer" -> "ProcessManager"
      [] panel = "NetworkGraph" -> "FileExplorer"

\* what the key does to the App when no help screen is shown
Pressed(key) == handle_key_event(app, key, TRUE).app

\* C39: the focus is on one of the five panels; panel_next moves it along
\* the cycle System Monitor, System Status, Process Manager, File Explorer,
\* Network Graph, System Monitor and panel_prev moves it the other way, each
\* undoing the other; five panel_next restore the focus; both leave every
\* other field of the App as it is, and so do the keys bound to them
C39_PanelFocusCycles ==
    /\ [](/\ \E i \in DOMAIN Panels : app.selected_panel = Panels[i]
          /\ select_next_panel(app)
                = [app EXCEPT !.selected_panel = PanelAfter(@)]
          /\ select_previous_panel(app)
                = [app EXCEPT !.selected_panel = PanelBefore(@)]
          /\ select_previous_panel(select_next_panel(app)) = app
          /\ select_next_panel(select_previous_panel(app)) = app
          /\ select_next_panel(select_next_panel(select_next_panel(
                select_next_panel(select_next_panel(app))))) = app
          /\ ~app.show_help =>
                /\ Pressed("Right") = select_next_panel(app)
                /\ Pressed("l") = select_next_panel(app)
                /\ Pressed("Left") = select_previous_panel(app)
                /\ Pressed("h") = select_previous_panel(app))
    /\ [][KeyStep /\ call'.key = "Right"
            => app' = [app EXCEPT !.selected_panel = PanelAfter(@)]]_vars

\* C39 witness: Right has taken the focus from the Network Graph panel
\* round to the System Monitor while the process cursor was off the first
\* row and the caches held data
C39_Witness ==
    /\ call.op = "key" /\ call.key = "Right"
    /\ app.selected_panel = "SystemMonitor"
    /\ app.selected_process > 0
    /\ app.cached_processes # <<>>
    /\ app.cached_networks # <<>>

(***************************************************************************)
(* Properties of going back.                                               *)
(***************************************************************************)
\* every directory of the history can be read
HistoryReadable ==
    \A i \in DOMAIN app.directory_history : ReadOk(app.directory_history[i])

\* C40: with every directory of the history readable, 'b' from any entry
\* but the oldest navigates to the entry before it and leaves the history
\* as it is, so the position of current_dir in the history goes down by one
\* with every 'b'; at the oldest entry, which is reached from position p
\* after p - 1 presses, 'b' changes nothing
C40_GoBackWalksToOldest ==
    [][BackStep /\ HistoryReadable =>
         IF Located > 1
         THEN /\ call'.log = <<[target |-> app.directory_history[Located - 1],
                                ok |-> TRUE]>>
              /\ app'.directory_history = app.directory_history
              /\ app'.current_dir = app.directory_history[Located - 1]
              /\ Located' = Located - 1
         ELSE app' = app /\ call'.log = <<>>]_vars

\* C40 witness: 'b' has arrived at the oldest entry of a full history, from
\* which the root directory has been evicted
C40_Witness ==
    /\ call.op = "key" /\ call.key = "b"
    /\ call.log # <<>>
    /\ Len(app.directory_history) = MAX_DIRECTORY_HISTORY
    /\ app.directory_history[1] = app.current_dir
    /\ app.current_dir # Root

\* C40 witness of the no-op: 'b' was pressed at the oldest entry of a
\* history of several directories
C40_NoOpWitness ==
    /\ call.op = "key" /\ call.key = "b"
    /\ call.log = <<>>
    /\ app.selected_panel = "FileExplorer"
    /\ Len(app.directory_history) > 1
    /\ app.directory_history[1] = app.current_dir

====
